---- MODULE Spec2Model ----
(***************************************************************************)
(* Model of the ingredient matching and recipe-priority engine of          *)
(* src/src/ingredient_matcher.py (class IngredientMatcher).                *)
(*                                                                         *)
(* A Python str is modelled as a sequence of one-character strings, so     *)
(* that lower-casing, the regular-expression substitutions, the plural     *)
(* fold and the similarity ratio are computed character by character as    *)
(* the code computes them.                                                 *)
(*                                                                         *)
(* A similarity score is the exact fraction [num, den] of fuzz.ratio, where *)
(* the code holds its float.  The rounded figures of an analysis are        *)
(* integers: percentages in tenths, priority_score in thousandths and       *)
(* cost_score in hundredths.                                                *)
(*                                                                         *)
(* The code does not pin rapidfuzz: process.extract returns pairs          *)
(* (choice, score) in the releases before 1.0 and triples                  *)
(* (choice, score, index) since; extract_width is which of the two the     *)
(* installed library does.                                                 *)
(***************************************************************************)
EXTENDS Integers, Sequences, FiniteSets, TLC

(***************************************************************************)
(* Characters and the str methods the code uses.                           *)
(***************************************************************************)
LowerLetters ==
  <<"a","b","c","d","e","f","g","h","i","j","k","l","m",
    "n","o","p","q","r","s","t","u","v","w","x","y","z">>

UpperLetters ==
  <<"A","B","C","D","E","F","G","H","I","J","K","L","M",
    "N","O","P","Q","R","S","T","U","V","W","X","Y","Z">>

Digits == {"0","1","2","3","4","5","6","7","8","9"}

Whitespace == {" ", "\t"}

Range(f) == {f[x] : x \in DOMAIN f}

\* a sequence given as a function, written out as a tuple
AsTuple(f) == f \o <<>>

\* \w of the re module: letters, digits and the underscore
WordChars == Range(LowerLetters) \cup Range(UpperLetters) \cup Digits \cup {"_"}

\* str.lower() on one character
LowerChar(c) ==
  IF c \in Range(UpperLetters)
  THEN LowerLetters[CHOOSE k \in DOMAIN UpperLetters : UpperLetters[k] = c]
  ELSE c

\* str.lower()
Lower(s) == AsTuple([k \in DOMAIN s |-> LowerChar(s[k])])

RECURSIVE LStrip(_)
LStrip(s) ==
  IF s # <<>> /\ Head(s) \in Whitespace THEN LStrip(Tail(s)) ELSE s

RECURSIVE RStrip(_)
RStrip(s) ==
  IF s # <<>> /\ s[Len(s)] \in Whitespace
  THEN RStrip(SubSeq(s, 1, Len(s) - 1))
  ELSE s

\* str.strip()
Strip(s) == RStrip(LStrip(s))

\* str.split(): the maximal runs of non-whitespace characters
Split(s) ==
  LET idx == [i \in 1..Len(s) |-> i]
      starts == SelectSeq(idx, LAMBDA i :
                  s[i] \notin Whitespace /\ (i = 1 \/ s[i - 1] \in Whitespace))
      ends == SelectSeq(idx, LAMBDA i :
                  s[i] \notin Whitespace /\ (i = Len(s) \/ s[i + 1] \in Whitespace))
  IN AsTuple([k \in DOMAIN starts |-> SubSeq(s, starts[k], ends[k])])

\* ' '.join(words)
RECURSIVE Join(_)
Join(words) ==
  IF words = <<>> THEN <<>>
  ELSE IF Len(words) = 1 THEN words[1]
  ELSE words[1] \o <<" ">> \o Join(Tail(words))

\* str.endswith(suffix)
EndsWith(s, suffix) ==
  /\ Len(s) >= Len(suffix)
  /\ SubSeq(s, Len(s) - Len(suffix) + 1, Len(s)) = suffix

\* s[i:].startswith(lit), i counted from 1
HasAt(s, i, lit) ==
  /\ i + Len(lit) - 1 <= Len(s)
  /\ SubSeq(s, i, i + Len(lit) - 1) = lit

(***************************************************************************)
(* The regular expressions of unit_patterns, matched the way the re module *)
(* matches them: leftmost, greedy quantifiers, alternatives in the order   *)
(* written, backtracking into the earlier choice when the rest fails.      *)
(* A pattern is a sequence of elements:                                    *)
(*   [t |-> "b"]                              \b                           *)
(*   [t |-> "set", cs, neg, lo, one]          a character class repeated   *)
(*                                            at least lo times and, when  *)
(*                                            one holds, at most once;     *)
(*                                            greedy                       *)
(*   [t |-> "alt", alts]                      (lit1|lit2|...)              *)
(***************************************************************************)
B == [t |-> "b"]
Cls(cs, lo, one) == [t |-> "set", cs |-> cs, neg |-> FALSE, lo |-> lo, one |-> one]
NotCls(cs, lo, one) == [t |-> "set", cs |-> cs, neg |-> TRUE, lo |-> lo, one |-> one]
Alt(alts) == [t |-> "alt", alts |-> alts]

IsWordAt(s, i) == i >= 1 /\ i <= Len(s) /\ s[i] \in WordChars

\* \b holds between s[i-1] and s[i]
Boundary(s, i) == IsWordAt(s, i - 1) # IsWordAt(s, i)

InClass(e, c) == IF e.neg THEN c \notin e.cs ELSE c \in e.cs

\* the number of characters from position i on that element e can take
RECURSIVE RunLen(_, _, _, _)
RunLen(e, s, i, n) ==
  IF (e.one => n < 1) /\ i + n <= Len(s) /\ InClass(e, s[i + n])
  THEN RunLen(e, s, i, n + 1)
  ELSE n

\* Match(pat, k, s, i): elements k.. of pat matched at position i of s;
\* the position after the match, or 0 when there is none
RECURSIVE Match(_, _, _, _), TryReps(_, _, _, _, _), TryAlts(_, _, _, _, _)
Match(pat, k, s, i) ==
  IF k > Len(pat) THEN i
  ELSE LET e == pat[k] IN
       CASE e.t = "b" -> IF Boundary(s, i) THEN Match(pat, k + 1, s, i) ELSE 0
         [] e.t = "set" -> LET n == RunLen(e, s, i, 0)
                           IN IF n < e.lo THEN 0 ELSE TryReps(pat, k, s, i, n)
         [] e.t = "alt" -> TryAlts(pat, k, s, i, 1)

TryReps(pat, k, s, i, c) ==
  LET r == Match(pat, k + 1, s, i + c)
  IN IF r # 0 THEN r
     ELSE IF c > pat[k].lo THEN TryReps(pat, k, s, i, c - 1) ELSE 0

TryAlts(pat, k, s, i, a) ==
  IF a > Len(pat[k].alts) THEN 0
  ELSE LET lit == pat[k].alts[a]
           r == IF HasAt(s, i, lit) THEN Match(pat, k + 1, s, i + Len(lit)) ELSE 0
       IN IF r # 0 THEN r ELSE TryAlts(pat, k, s, i, a + 1)

\* Every pattern of the code opens, after an optional \b, with a class that
\* must take at least one character: no match starts on any other character.
CanStart(pat, c) == InClass(IF pat[1].t = "b" THEN pat[2] ELSE pat[1], c)

\* re.sub(pattern, '', s): every leftmost non-overlapping match removed.
\* pos is where the scan resumes, acc what has been kept so far.
RECURSIVE SubFrom(_, _, _, _)
SubFrom(pat, s, pos, acc) ==
  LET starts == {i \in pos..Len(s) : CanStart(pat, s[i]) /\ Match(pat, 1, s, i) > i}
  IN IF starts = {} THEN acc \o SubSeq(s, pos, Len(s))
     ELSE LET i == CHOOSE k \in starts : \A m \in starts : k <= m
              kept == acc \o SubSeq(s, pos, i - 1)
          IN IF Len(kept) >= 0 THEN SubFrom(pat, s, Match(pat, 1, s, i), kept)
             ELSE kept

ReSub(pat, s) == SubFrom(pat, s, 1, <<>>)

(***************************************************************************)
(* The words of the tables and of the inputs, spelled out as sequences.     *)
(***************************************************************************)
w_beef == <<"b","e","e","f">>
w_bell == <<"b","e","l","l">>
w_black == <<"b","l","a","c","k">>
w_breast == <<"b","r","e","a","s","t">>
w_chicken == <<"c","h","i","c","k","e","n">>
w_coconut == <<"c","o","c","o","n","u","t">>
w_fresh == <<"f","r","e","s","h">>
w_garlic == <<"g","a","r","l","i","c">>
w_green == <<"g","r","e","e","n">>
w_ground == <<"g","r","o","u","n","d">>
w_kosher == <<"k","o","s","h","e","r">>
w_mince == <<"m","i","n","c","e">>
w_oil == <<"o","i","l">>
w_olive == <<"o","l","i","v","e">>
w_onion == <<"o","n","i","o","n">>
w_pepper == <<"p","e","p","p","e","r">>
w_peppers == <<"p","e","p","p","e","r","s">>
w_quinoa == <<"q","u","i","n","o","a">>
w_salt == <<"s","a","l","t">>
w_scallion == <<"s","c","a","l","l","i","o","n">>
w_sea == <<"s","e","a">>
w_spring == <<"s","p","r","i","n","g">>
w_sweet == <<"s","w","e","e","t">>
w_turkey == <<"t","u","r","k","e","y">>
w_virgin == <<"v","i","r","g","i","n">>
w_zucchini == <<"z","u","c","c","h","i","n","i">>
\* self.synonyms: the dict as its (key, value) pairs in the order written
synonyms == <<
  <<w_scallion, <<Join(<<w_green, w_onion>>), Join(<<w_spring, w_onion>>)>>>>,
  <<Join(<<w_green, w_onion>>), <<w_scallion, Join(<<w_spring, w_onion>>)>>>>,
  <<Join(<<w_spring, w_onion>>), <<w_scallion, Join(<<w_green, w_onion>>)>>>>,
  <<<<"c","i","l","a","n","t","r","o">>, <<<<"c","o","r","i","a","n","d","e","r">>,
      Join(<<<<"c","h","i","n","e","s","e">>, <<"p","a","r","s","l","e","y">>>>)>>>>,
  <<<<"c","o","r","i","a","n","d","e","r">>, <<<<"c","i","l","a","n","t","r","o">>,
      Join(<<<<"c","h","i","n","e","s","e">>, <<"p","a","r","s","l","e","y">>>>)>>>>,
  <<Join(<<w_bell, w_pepper>>), <<Join(<<w_sweet, w_pepper>>), <<"c","a","p","s","i","c","u","m">>>>>>,
  <<Join(<<w_sweet, w_pepper>>), <<Join(<<w_bell, w_pepper>>), <<"c","a","p","s","i","c","u","m">>>>>>,
  <<w_zucchini, <<<<"c","o","u","r","g","e","t","t","e">>>>>>,
  <<<<"c","o","u","r","g","e","t","t","e">>, <<w_zucchini>>>>,
  <<<<"e","g","g","p","l","a","n","t">>, <<<<"a","u","b","e","r","g","i","n","e">>>>>>,
  <<<<"a","u","b","e","r","g","i","n","e">>, <<<<"e","g","g","p","l","a","n","t">>>>>>,
  <<<<"r","o","m","a","i","n","e">>,
   <<Join(<<<<"r","o","m","a","i","n","e">>, <<"l","e","t","t","u","c","e">>>>),
     Join(<<<<"c","o","s">>, <<"l","e","t","t","u","c","e">>>>)>>>>,
  <<Join(<<<<"r","o","m","a","i","n","e">>, <<"l","e","t","t","u","c","e">>>>),
   <<<<"r","o","m","a","i","n","e">>,
     Join(<<<<"c","o","s">>, <<"l","e","t","t","u","c","e">>>>)>>>>,
  <<Join(<<w_ground, w_beef>>), <<Join(<<w_beef, w_mince>>), Join(<<<<"m","i","n","c","e","d">>, w_beef>>)>>>>,
  <<Join(<<w_beef, w_mince>>), <<Join(<<w_ground, w_beef>>), Join(<<<<"m","i","n","c","e","d">>, w_beef>>)>>>>,
  <<Join(<<w_ground, w_turkey>>), <<Join(<<w_turkey, w_mince>>), Join(<<<<"m","i","n","c","e","d">>, w_turkey>>)>>>>,
  <<Join(<<w_turkey, w_mince>>), <<Join(<<w_ground, w_turkey>>), Join(<<<<"m","i","n","c","e","d">>, w_turkey>>)>>>>,
  <<Join(<<w_chicken, w_breast>>), <<Join(<<w_chicken, <<"b","r","e","a","s","t","s">>>>), Join(<<w_chicken, w_breast, <<"m","e","a","t">>>>)>>>>,
  <<Join(<<w_olive, w_oil>>), <<Join(<<<<"e","x","t","r","a">>,
      w_virgin, w_olive, w_oil>>), <<"e","v","o","o">>>>>>,
  <<Join(<<w_coconut, w_oil>>), <<Join(<<w_virgin, w_coconut, w_oil>>), Join(<<<<"u","n","r","e","f","i","n","e","d">>, w_coconut, w_oil>>)>>>>,
  <<Join(<<w_sea, w_salt>>), <<w_salt, Join(<<w_kosher, w_salt>>)>>>>,
  <<Join(<<w_kosher, w_salt>>), <<w_salt, Join(<<w_sea, w_salt>>)>>>>,
  <<Join(<<w_black, w_pepper>>), <<w_pepper, Join(<<w_ground, w_black, w_pepper>>)>>>>,
  <<Join(<<w_ground, w_black, w_pepper>>), <<Join(<<w_black, w_pepper>>), w_pepper>>>>
  >>

\* self.stop_words
stop_words == {
  w_fresh, <<"f","r","o","z","e","n">>, <<"d","r","i","e","d">>,
  <<"o","r","g","a","n","i","c">>, <<"r","a","w">>, <<"c","o","o","k","e","d">>,
  <<"c","h","o","p","p","e","d">>, <<"d","i","c","e","d">>, <<"s","l","i","c","e","d">>,
  <<"m","i","n","c","e","d">>, <<"g","r","a","t","e","d">>, <<"s","h","r","e","d","d","e","d">>,
  <<"c","r","u","s","h","e","d">>, <<"w","h","o","l","e">>, w_ground,
  <<"p","o","w","d","e","r","e","d">>, <<"e","x","t","r","a">>, w_virgin,
  <<"p","u","r","e">>, <<"u","n","s","a","l","t","e","d">>, <<"s","a","l","t","e","d">>,
  <<"u","n","s","w","e","e","t","e","n","e","d">>, <<"s","w","e","e","t","e","n","e","d">>,
  <<"l","o","w">>,
  <<"f","a","t">>, <<"r","e","d","u","c","e","d">>, <<"s","o","d","i","u","m">>,
  <<"f","r","e","e">>, <<"r","a","n","g","e">>, <<"g","r","a","d","e">>,
  <<"l","a","r","g","e">>, <<"m","e","d","i","u","m">>, <<"s","m","a","l","l">>,
  <<"b","a","b","y">>, <<"y","o","u","n","g">>, <<"m","a","t","u","r","e">>,
  <<"r","i","p","e">>, <<"u","n","r","i","p","e">>, <<"c","a","n","n","e","d">>,
  <<"j","a","r","r","e","d">>, <<"b","o","t","t","l","e","d">>,
  <<"p","a","c","k","a","g","e","d">>,
  <<"r","e","f","r","i","g","e","r","a","t","e","d">>
  }

\* the alternatives of the seven quantity-and-unit patterns, in the order written
Units1 ==
  <<<< "c","u","p">>, <<"c","u","p","s">>, <<"t","a","b","l","e","s","p","o","o","n">>,
  <<"t","a","b","l","e","s","p","o","o","n","s">>, <<"t","b","s","p">>,
  <<"t","e","a","s","p","o","o","n">>, <<"t","e","a","s","p","o","o","n","s">>,
  <<"t","s","p">> >>
Units2 ==
  <<<< "p","o","u","n","d">>, <<"p","o","u","n","d","s">>, <<"l","b">>, <<"l","b","s">>,
  <<"o","u","n","c","e">>, <<"o","u","n","c","e","s">>, <<"o","z">> >>
Units3 ==
  <<<< "g","r","a","m">>, <<"g","r","a","m","s">>, <<"g">>,
  <<"k","i","l","o","g","r","a","m">>, <<"k","i","l","o","g","r","a","m","s">>, <<"k","g">>
  >>
Units4 ==
  <<<< "l","i","t","e","r">>, <<"l","i","t","e","r","s">>, <<"l">>,
  <<"m","i","l","l","i","l","i","t","e","r">>,
  <<"m","i","l","l","i","l","i","t","e","r","s">>, <<"m","l">> >>
Units5 == <<<<"i","n","c","h">>, <<"i","n","c","h","e","s">>, <<"i","n">>>>
Units6 ==
  <<<< "p","i","e","c","e">>, <<"p","i","e","c","e","s">>, <<"p","c","s">>,
  <<"s","l","i","c","e">>, <<"s","l","i","c","e","s">>, <<"c","l","o","v","e">>,
  <<"c","l","o","v","e","s">> >>
Units7 ==
  <<<< "c","a","n">>, <<"c","a","n","s">>, <<"j","a","r">>, <<"j","a","r","s">>,
  <<"b","o","t","t","l","e">>, <<"b","o","t","t","l","e","s">>,
  <<"p","a","c","k","a","g","e">>, <<"p","a","c","k","a","g","e","s">>, <<"p","k","g">> >>

\* one quantity-and-unit pattern: \b\d+\.?\d*\s*(unit|...)\b
UnitPattern(units) ==
  <<B, Cls(Digits, 1, FALSE), Cls({"."}, 0, TRUE), Cls(Digits, 0, FALSE),
    Cls(Whitespace, 0, FALSE), Alt(units), B>>

\* self.unit_patterns, in the order the code applies them
unit_patterns == <<
  UnitPattern(Units1),
  UnitPattern(Units2),
  UnitPattern(Units3),
  UnitPattern(Units4),
  UnitPattern(Units5),
  UnitPattern(Units6),
  UnitPattern(Units7),
  \* \(\d+\.?\d*\s*[^)]*\)
  <<Cls({"("}, 1, TRUE), Cls(Digits, 1, FALSE), Cls({"."}, 0, TRUE),
    Cls(Digits, 0, FALSE), Cls(Whitespace, 0, FALSE), NotCls({")"}, 0, FALSE),
    Cls({")"}, 1, TRUE)>>,
  \* \b\d+\.?\d*\s*-\s*\d+\.?\d*\b
  <<B, Cls(Digits, 1, FALSE), Cls({"."}, 0, TRUE), Cls(Digits, 0, FALSE),
    Cls(Whitespace, 0, FALSE), Cls({"-"}, 1, TRUE), Cls(Whitespace, 0, FALSE),
    Cls(Digits, 1, FALSE), Cls({"."}, 0, TRUE), Cls(Digits, 0, FALSE), B>>,
  \* \b\d+/\d+\b
  <<B, Cls(Digits, 1, FALSE), Cls({"/"}, 1, TRUE), Cls(Digits, 1, FALSE), B>>,
  \* \b\d+\.?\d*\b
  <<B, Cls(Digits, 1, FALSE), Cls({"."}, 0, TRUE), Cls(Digits, 0, FALSE), B>>
  >>

(***************************************************************************)
(* normalize_ingredient_name                                               *)
(***************************************************************************)
\* for pattern in self.unit_patterns: normalized = re.sub(pattern, '', normalized)
RECURSIVE RemoveUnits(_, _)
RemoveUnits(s, k) ==
  IF k > Len(unit_patterns) THEN s
  ELSE LET normalized == ReSub(unit_patterns[k], s)
       IN IF Len(normalized) >= 0 THEN RemoveUnits(normalized, k + 1) ELSE s

\* [word for word in words if word not in self.stop_words]
RemoveStopWords(words) == SelectSeq(words, LAMBDA w : w \notin stop_words)

\* re.sub(r'[,\(\)\[\]\.]+', '', normalized)
Punctuation == {",", "(", ")", "[", "]", "."}

RemovePunctuation(s) == SelectSeq(s, LAMBDA c : c \notin Punctuation)

\* re.sub(r'\s+', ' ', normalized).strip()
CollapseSpaces(s) ==
  LET keep(i) == s[i] \notin Whitespace \/ i = 1 \/ s[i - 1] \notin Whitespace
      idx == SelectSeq([i \in 1..Len(s) |-> i], keep)
  IN Strip(AsTuple([k \in DOMAIN idx |->
                      IF s[idx[k]] \in Whitespace THEN " " ELSE s[idx[k]]]))

\* the plural fold on the end of the whole phrase
FoldPlural(s) ==
  IF EndsWith(s, <<"i","e","s">>)
  THEN SubSeq(s, 1, Len(s) - 3) \o <<"y">>
  ELSE IF EndsWith(s, <<"e","s">>) /\ ~EndsWith(s, <<"o","e","s">>)
  THEN SubSeq(s, 1, Len(s) - 2)
  ELSE IF EndsWith(s, <<"s">>) /\ Len(s) > 3
  THEN SubSeq(s, 1, Len(s) - 1)
  ELSE s

\* the phrase the plural fold is applied to: lower-cased, without quantities,
\* units, stop words and punctuation, single-spaced
Cleaned(ingredient) ==
  LET lowered == Strip(Lower(ingredient))
      unitless == RemoveUnits(lowered, 1)
      filtered == Join(RemoveStopWords(Split(unitless)))
  IN CollapseSpaces(RemovePunctuation(filtered))

normalize_ingredient_name(ingredient) ==
  IF ingredient = <<>> THEN <<>> ELSE FoldPlural(Cleaned(ingredient))

(***************************************************************************)
(* get_ingredient_variations                                               *)
(***************************************************************************)
\* normalized in self.synonyms
IsSynonymKey(s) == \E k \in DOMAIN synonyms : synonyms[k][1] = s

\* self.synonyms[normalized]
SynonymsOf(s) == synonyms[CHOOSE k \in DOMAIN synonyms : synonyms[k][1] = s][2]

\* the loop without the test for an entry seen before
UniqueKeepsRepeats(variations, unique_variations) ==
  SelectSeq(variations, LAMBDA var : var # <<>>)

\* the loop that removes duplicates and empty strings, keeping the first
RECURSIVE Unique(_, _)
Unique(variations, unique_variations) ==
  IF variations = <<>> THEN unique_variations
  ELSE LET var == Head(variations)
           next == IF var # <<>> /\ var \notin Range(unique_variations)
                   THEN Append(unique_variations, var)
                   ELSE unique_variations
       IN IF Len(next) >= 0 THEN Unique(Tail(variations), next) ELSE next

\* the variations of an ingredient with this normalized form and this
\* lower-cased, trimmed original text
Variations(normalized, original) ==
  Unique(<<normalized, original>>
           \o (IF IsSynonymKey(normalized) THEN SynonymsOf(normalized) ELSE <<>>)
           \o (IF Len(Split(normalized)) > 1 THEN Split(normalized) ELSE <<>>),
         <<>>)

get_ingredient_variations(ingredient) ==
  Variations(normalize_ingredient_name(ingredient), Strip(Lower(ingredient)))

(***************************************************************************)
(* rapidfuzz: fuzz.ratio and process.extract                               *)
(***************************************************************************)
Max(a, b) == IF a >= b THEN a ELSE b

\* The length of a longest common subsequence of a and b, row by row:
\* row[j + 1] is the length for a[1..i] and b[1..j].  With k the last
\* position of a[i] in b[1..j], the row for i is
\*   max(prev[j], prev[k - 1] + 1)
\* (the usual recurrence, solved along the row).
LcsRow(a, b, i, prev) ==
  LET hits == {k \in 1..Len(b) : b[k] = a[i]}
      last(j) == {k \in hits : k <= j}
      top(S) == CHOOSE k \in S : \A m \in S : m <= k
      cell(j) == IF last(j) = {} THEN prev[j + 1]
                 ELSE Max(prev[j + 1], prev[top(last(j))] + 1)
  IN AsTuple([j \in 1..(Len(b) + 1) |-> IF j = 1 THEN 0 ELSE cell(j - 1)])

RECURSIVE LcsFrom(_, _, _, _)
LcsFrom(a, b, i, prev) ==
  IF i > Len(a) THEN prev[Len(b) + 1]
  ELSE LET row == LcsRow(a, b, i, prev)
       IN IF Len(row) > 0 THEN LcsFrom(a, b, i + 1, row) ELSE 0

Lcs(a, b) == LcsFrom(a, b, 1, AsTuple([j \in 1..(Len(b) + 1) |-> 0]))

RECURSIVE Gcd(_, _)
Gcd(a, b) == IF b = 0 THEN a ELSE Gcd(b, a % b)

\* a score is the exact fraction num/den in lowest terms (the code holds the
\* nearest float)
Score(num, den) ==
  LET g == Gcd(num, den) IN [num |-> num \div g, den |-> den \div g]

ScoreOfInt(n) == [num |-> n, den |-> 1]

ScoreGt(x, y) == x.num * y.den > y.num * x.den

ScoreGe(x, y) == x.num * y.den >= y.num * x.den

\* fuzz.ratio: the normalized indel similarity, 100 * 2 * lcs / (len(a) + len(b))
fuzz_ratio(a, b) ==
  IF Len(a) + Len(b) = 0 THEN ScoreOfInt(100)
  ELSE Score(200 * Lcs(a, b), Len(a) + Len(b))

\* the position, among the positions in todo, of the best-scoring choice,
\* the earliest one among equals
BestIndex(scores, todo) ==
  CHOOSE k \in todo :
    \A m \in todo :
      \/ ScoreGt(scores[k], scores[m])
      \/ (~ScoreGt(scores[m], scores[k]) /\ k <= m)

RECURSIVE TopScores(_, _, _, _)
TopScores(scores, todo, limit, acc) ==
  IF todo = {} \/ Len(acc) = limit THEN acc
  ELSE LET k == BestIndex(scores, todo)
       IN TopScores(scores, todo \ {k}, limit, Append(acc, k))

\* process.extract(query, choices, scorer=fuzz.ratio, limit=limit): the limit
\* best choices, best first, each as (choice, score) or, as the rapidfuzz
\* releases since 1.0 return them, as (choice, score, index); width is the
\* number of fields
process_extract(query, choices, limit, width) ==
  LET scores == AsTuple([k \in DOMAIN choices |-> fuzz_ratio(query, choices[k])])
      order == TopScores(scores, DOMAIN choices, limit, <<>>)
  IN AsTuple([r \in DOMAIN order |->
        IF width = 2 THEN <<choices[order[r]], scores[order[r]]>>
        ELSE <<choices[order[r]], scores[order[r]], order[r] - 1>>])

(***************************************************************************)
(* The state.                                                              *)
(***************************************************************************)
VARIABLES
  extract_width,          \* the installed rapidfuzz: fields per process.extract result
  env_threshold,          \* FUZZY_MATCH_THRESHOLD of the environment: <<>> or <<n>>
  matcher,                \* the IngredientMatcher in use, NoMatcher before construction
  recipe_ingredient,      \* the ingredient text find_best_match is called with
  available_ingredients,  \* the pool find_best_match is called with
  found,                  \* the last call of find_best_match and what it returned
  pantry_items,           \* the caller's pantry pool
  commissary_items,       \* the caller's commissary pool
  recipes,                \* the batch of recipe dicts, analysed in place
  next_recipe,            \* the recipe the loop over the batch analyses next
  ranked,                 \* what sort_recipes_by_priority last returned (indices into recipes)
  last_op,                \* the operation that ran last
  raw_ingredient,         \* the text normalize_ingredient_name is first called with
  normal_forms,           \* what successive calls returned, each fed the one before
  variation_list,         \* the call get_ingredient_variations(raw_ingredient) and its result
  test_cases,             \* the debugger's test_cases
  reported                \* the debugger's last call and what it returned

vars == <<extract_width, env_threshold, matcher, recipe_ingredient,
          available_ingredients, found, pantry_items, commissary_items,
          recipes, next_recipe, ranked, last_op, raw_ingredient,
          normal_forms, variation_list, test_cases, reported>>

\* Python's None
None == [none |-> TRUE]

(***************************************************************************)
(* IngredientMatcher.__init__ and create_ingredient_matcher                *)
(***************************************************************************)
DefaultThreshold == 80

\* int(os.getenv('FUZZY_MATCH_THRESHOLD', 80))
EnvThreshold(env) == IF env = <<>> THEN DefaultThreshold ELSE env[1]

\* IngredientMatcher(fuzzy_threshold=arg); arg is <<>> for None (the default)
\* or <<n>> for the int n.
\* "fuzzy_threshold or int(os.getenv(...))": None and 0 are both falsy
IngredientMatcher(arg, env) ==
  [fuzzy_threshold |-> IF arg = <<>> \/ arg[1] = 0 THEN EnvThreshold(env) ELSE arg[1]]

create_ingredient_matcher(env) ==
  LET threshold == EnvThreshold(env) IN IngredientMatcher(<<threshold>>, env)

(***************************************************************************)
(* find_best_match                                                         *)
(***************************************************************************)
ExtractLimit == 5

\* isinstance(item, dict): a pool entry is a record, or None where the
\* inventory holds something that is not one
IsDict(item) == item # None

\* item.get('Item', '').strip()
ItemName(item) == Strip(IF "Item" \in DOMAIN item THEN item.Item ELSE <<>>)

\* the (normalized_name, item) pairs of the items that have a name whose
\* normalized form is not empty, in the order of the pool
AvailableNames(items) ==
  LET pairs == AsTuple([k \in DOMAIN items |->
                 <<IF IsDict(items[k]) THEN normalize_ingredient_name(ItemName(items[k]))
                   ELSE <<>>,
                   items[k]>>])
  IN SelectSeq(pairs, LAMBDA p : IsDict(p[2]) /\ ItemName(p[2]) # <<>> /\ p[1] # <<>>)

\* the first pair of available_names that carries match_name, 0 when none
FirstNamed(available_names, match_name) ==
  IF \E k \in DOMAIN available_names : available_names[k][1] = match_name
  THEN CHOOSE k \in DOMAIN available_names :
         /\ available_names[k][1] = match_name
         /\ \A m \in 1..(k - 1) : available_names[m][1] # match_name
  ELSE 0

\* best_match = item.copy() and the three keys set on the copy
Matched(item, score, ingredient, match_name) ==
  [match_score |-> score, recipe_ingredient |-> ingredient,
   matched_name |-> match_name] @@ item

PoolAfterFindWithoutCopy(available, best_match) ==
  IF best_match = None THEN available
  ELSE AsTuple([k \in DOMAIN available |->
         IF IsDict(available[k]) /\ available[k].Item = best_match.Item
         THEN best_match ELSE available[k]])

\* the caller's pool after find_best_match returned best_match: best_match
\* is item.copy(), the three keys are set on the copy and the records of the
\* pool stay as they were
PoolAfterFind(available, best_match) == available

AcceptsEqualScore(self, score, best_score) ==
  ScoreGe(score, best_score) /\ ScoreGe(score, ScoreOfInt(self.fuzzy_threshold))

AcceptsBelowThreshold(self, score, best_score) ==
  ScoreGt(score, best_score)

\* if score > best_score and score >= self.fuzzy_threshold
Accepts(self, score, best_score) ==
  ScoreGt(score, best_score) /\ ScoreGe(score, ScoreOfInt(self.fuzzy_threshold))

\* for match_result in matches: ...
RECURSIVE ScanMatches(_, _, _, _, _, _)
ScanMatches(self, ingredient, available_names, matches, r, best) ==
  IF r > Len(matches) THEN best
  ELSE LET match_result == matches[r]
           next ==
             IF Len(match_result) # 2 THEN best
             ELSE LET match_name == match_result[1]
                      score == match_result[2]
                      k == FirstNamed(available_names, match_name)
                  IN IF Accepts(self, score, best.best_score) /\ k # 0
                     THEN [best_match |-> Matched(available_names[k][2], score,
                                                  ingredient, match_name),
                           best_score |-> score]
                     ELSE best
       IN IF DOMAIN next # {}
          THEN ScanMatches(self, ingredient, available_names, matches, r + 1, next)
          ELSE best

\* for recipe_var in recipe_variations: ...
RECURSIVE ScanVariations(_, _, _, _, _, _, _)
ScanVariations(self, ingredient, available_names, variations, v, width, best) ==
  IF v > Len(variations) THEN best
  ELSE LET recipe_var == variations[v]
           names == AsTuple([k \in DOMAIN available_names |-> available_names[k][1]])
           matches == process_extract(recipe_var, names, ExtractLimit, width)
           next == IF recipe_var = <<>> THEN best
                   ELSE ScanMatches(self, ingredient, available_names, matches, 1, best)
       IN IF DOMAIN next # {}
          THEN ScanVariations(self, ingredient, available_names, variations, v + 1,
                              width, next)
          ELSE best

\* find_best_match(self, ingredient, available) under a rapidfuzz whose
\* process.extract returns tuples of width fields
FindBestMatchWith(self, ingredient, available, width) ==
  IF ingredient = <<>> \/ available = <<>> THEN None
  ELSE ScanVariations(self, ingredient, AvailableNames(available),
                      get_ingredient_variations(ingredient), 1, width,
                      [best_match |-> None, best_score |-> ScoreOfInt(0)]).best_match

find_best_match(self, ingredient, available) ==
  FindBestMatchWith(self, ingredient, available, extract_width)

(***************************************************************************)
(* ingredient_matcher_debug.py: modified_find_best_match with fuzz.ratio   *)
(***************************************************************************)
\* if score > best_score and score >= self.matcher.fuzzy_threshold: ...
Better(self, ingredient, name_item, score, best) ==
  IF Accepts(self, score, best.best_score)
  THEN [best_match |-> Matched(name_item[2], score, ingredient, name_item[1]),
        best_score |-> score]
  ELSE best

\* for name, item in available_names: ...
RECURSIVE ScanNames(_, _, _, _, _, _)
ScanNames(self, ingredient, available_names, recipe_var, k, best) ==
  IF k > Len(available_names) \/ DOMAIN best = {} THEN best
  ELSE ScanNames(self, ingredient, available_names, recipe_var, k + 1,
                 Better(self, ingredient, available_names[k],
                        fuzz_ratio(recipe_var, available_names[k][1]), best))

\* for recipe_var in recipe_variations: ...
RECURSIVE ScanAll(_, _, _, _, _, _)
ScanAll(self, ingredient, available_names, variations, v, best) ==
  IF v > Len(variations) \/ DOMAIN best = {} THEN best
  ELSE ScanAll(self, ingredient, available_names, variations, v + 1,
               IF variations[v] = <<>> THEN best
               ELSE ScanNames(self, ingredient, available_names, variations[v], 1, best))

modified_find_best_match(self, ingredient, available) ==
  IF ingredient = <<>> \/ available = <<>> THEN None
  ELSE ScanAll(self, ingredient, AvailableNames(available),
               get_ingredient_variations(ingredient), 1,
               [best_match |-> None, best_score |-> ScoreOfInt(0)]).best_match

(***************************************************************************)
(* match_recipe_ingredients                                                *)
(***************************************************************************)
\* d.get(key, '')
Get(d, key) == IF key \in DOMAIN d THEN d[key] ELSE <<>>

IngredientNameOriginalFirst(recipe_ing) ==
  IF Get(recipe_ing, "original") # <<>> THEN Get(recipe_ing, "original")
  ELSE Get(recipe_ing, "name")

\* recipe_ing.get('name', '') or recipe_ing.get('original', '')
IngredientName(recipe_ing) ==
  IF Get(recipe_ing, "name") # <<>> THEN Get(recipe_ing, "name")
  ELSE Get(recipe_ing, "original")

\* [dict(item, source=source) for item in items]
WithSource(items, source) ==
  AsTuple([k \in DOMAIN items |-> [source |-> source] @@ items[k]])

PoolAfterCopyTagged(recipe, items, source) ==
  IF "ingredients" \in DOMAIN recipe THEN WithSource(items, source) ELSE items

\* the caller's pool after match_recipe_ingredients: dict(item, source=source)
\* builds a new record for each item, and the matching works on the new ones
PoolAfterCopy(recipe, items, source) == items

AllAvailableCommissaryFirst(pantry, commissary) ==
  WithSource(commissary, "commissary") \o WithSource(pantry, "pantry")

\* pantry_with_source + commissary_with_source
AllAvailable(pantry, commissary) ==
  WithSource(pantry, "pantry") \o WithSource(commissary, "commissary")

\* the entry appended to matched_ingredients[source] or to the store bucket
MatchInfo(ingredient_name, match, recipe_ing) ==
  IF match # None
  THEN [recipe_ingredient |-> ingredient_name,
        matched_item |-> match.Item,
        match_score |-> match.match_score,
        category |-> Get(match, "Category"),
        vendor |-> Get(match, "Vendor"),
        original_recipe_data |-> recipe_ing]
  ELSE [recipe_ingredient |-> ingredient_name,
        matched_item |-> None,
        match_score |-> ScoreOfInt(0),
        category |-> "Store Purchase",
        vendor |-> "Supermarket",
        original_recipe_data |-> recipe_ing]

BucketedAtFront(acc, self, ingredient_name, recipe_ing, match) ==
  [acc EXCEPT ![IF match # None THEN match.source ELSE "store"] =
                  <<MatchInfo(ingredient_name, match, recipe_ing)>> \o @,
              !.last = [called |-> TRUE, self |-> self,
                        recipe_ingredient |-> ingredient_name, result |-> match]]

BucketedMatchedOnly(acc, self, ingredient_name, recipe_ing, match) ==
  IF match # None
  THEN [acc EXCEPT ![match.source] =
                     Append(@, MatchInfo(ingredient_name, match, recipe_ing)),
                   !.last = [called |-> TRUE, self |-> self,
                             recipe_ingredient |-> ingredient_name, result |-> match]]
  ELSE [acc EXCEPT !.last = [called |-> TRUE, self |-> self,
                             recipe_ingredient |-> ingredient_name, result |-> match]]

\* the body of the loop for an ingredient with a name: the entry goes to the
\* bucket of the match's source, or to 'store'; last keeps the call made
Bucketed(acc, self, ingredient_name, recipe_ing, match) ==
  [acc EXCEPT ![IF match # None THEN match.source ELSE "store"] =
                  Append(@, MatchInfo(ingredient_name, match, recipe_ing)),
              !.last = [called |-> TRUE, self |-> self,
                        recipe_ingredient |-> ingredient_name, result |-> match]]

\* if not ingredient_name: continue
LoopBody(acc, self, ingredient_name, recipe_ing, all_available) ==
  IF ingredient_name = <<>> THEN acc
  ELSE Bucketed(acc, self, ingredient_name, recipe_ing,
                find_best_match(self, ingredient_name, all_available))

\* for recipe_ing in recipe.get('ingredients', []): ...
\* acc holds matched_ingredients and, in last, the last find_best_match call
RECURSIVE MatchLoop(_, _, _, _, _)
MatchLoop(self, ingredients, all_available, k, acc) ==
  IF k > Len(ingredients) \/ DOMAIN acc = {} THEN acc
  ELSE MatchLoop(self, ingredients, all_available, k + 1,
                 LoopBody(acc, self, IngredientName(ingredients[k]), ingredients[k],
                          all_available))

\* round(num / den) to the nearest integer, a half to the even neighbour:
\* what Python's round gives for the values the code rounds, whenever the
\* recipe has fewer than eight ingredients
RoundDiv(num, den) ==
  LET q == num \div den
      r2 == 2 * (num % den)
  IN IF r2 > den \/ (r2 = den /\ q % 2 = 1) THEN q + 1 ELSE q

ScoresCostFromOne(pantry_count, commissary_count, store_count, total_ingredients) ==
  IF total_ingredients > 0
  THEN [match_percentage |->
          RoundDiv((pantry_count + commissary_count) * 1000, total_ingredients),
        pantry_percentage |-> RoundDiv(pantry_count * 1000, total_ingredients),
        commissary_percentage |-> RoundDiv(commissary_count * 1000, total_ingredients),
        priority_score |->
          RoundDiv((5 * pantry_count + 3 * commissary_count
                    + 2 * (pantry_count + commissary_count)) * 100,
                   total_ingredients),
        cost_score |->
          RoundDiv((pantry_count * 1 + commissary_count * 2 + store_count * 3) * 100,
                   total_ingredients)]
  ELSE [match_percentage |-> 0, pantry_percentage |-> 0, commissary_percentage |-> 0,
        priority_score |-> 0, cost_score |-> 200]

\* the three percentages in tenths of a percent, priority_score in
\* thousandths, cost_score in hundredths
Scores(pantry_count, commissary_count, store_count, total_ingredients) ==
  IF total_ingredients > 0
  THEN [match_percentage |->
          RoundDiv((pantry_count + commissary_count) * 1000, total_ingredients),
        pantry_percentage |-> RoundDiv(pantry_count * 1000, total_ingredients),
        commissary_percentage |-> RoundDiv(commissary_count * 1000, total_ingredients),
        \* p/t * 0.5 + c/t * 0.3 + (p + c)/t * 0.2
        priority_score |->
          RoundDiv((5 * pantry_count + 3 * commissary_count
                    + 2 * (pantry_count + commissary_count)) * 100,
                   total_ingredients),
        cost_score |->
          RoundDiv((pantry_count * 0 + commissary_count * 1 + store_count * 2) * 100,
                   total_ingredients)]
  ELSE [match_percentage |-> 0, pantry_percentage |-> 0, commissary_percentage |-> 0,
        priority_score |-> 0, cost_score |-> 200]

Names(infos) == AsTuple([k \in DOMAIN infos |-> infos[k].recipe_ingredient])

NoCall == [called |-> FALSE]

\* the loop of match_recipe_ingredients over the ingredients of the recipe
Classified(self, recipe, pantry, commissary) ==
  MatchLoop(self, Get(recipe, "ingredients"), AllAvailable(pantry, commissary), 1,
            [pantry |-> <<>>, commissary |-> <<>>, store |-> <<>>, last |-> NoCall])

\* recipe['ingredient_analysis'] for the matched_ingredients m
Analysis(recipe, m) ==
  LET total_ingredients == Len(recipe.ingredients)
      pantry_count == Len(m.pantry)
      commissary_count == Len(m.commissary)
      store_count == Len(m.store)
  IN [pantry_ingredients |-> Names(m.pantry),
      commissary_ingredients |-> Names(m.commissary),
      store_ingredients |-> Names(m.store),
      pantry_count |-> pantry_count,
      commissary_count |-> commissary_count,
      store_count |-> store_count,
      total_ingredients |-> total_ingredients,
      detailed_matches |-> [pantry |-> m.pantry, commissary |-> m.commissary,
                            store |-> m.store]]
     @@ Scores(pantry_count, commissary_count, store_count, total_ingredients)

\* if not recipe or 'ingredients' not in recipe: return recipe; otherwise the
\* recipe with its analysis, m being the matched_ingredients of the loop
Analysed(recipe, m) ==
  IF "ingredients" \notin DOMAIN recipe THEN recipe
  ELSE [ingredient_analysis |-> Analysis(recipe, m)] @@ recipe

\* the recipe as match_recipe_ingredients returns it (and leaves it, the dict
\* being updated in place)
match_recipe_ingredients(self, recipe, pantry, commissary) ==
  Analysed(recipe, Classified(self, recipe, pantry, commissary))

(***************************************************************************)
(* sort_recipes_by_priority                                                *)
(***************************************************************************)
\* recipe.get('ingredient_analysis', {}).get('priority_score', 0)
get_priority_score(recipe) ==
  IF "ingredient_analysis" \in DOMAIN recipe
     /\ "priority_score" \in DOMAIN recipe.ingredient_analysis
  THEN recipe.ingredient_analysis.priority_score
  ELSE 0

InsertAtAscending(keys, sorted, k) ==
  Cardinality({p \in DOMAIN sorted : keys[sorted[p]] <= keys[k]}) + 1

InsertAtBeforeEquals(keys, sorted, k) ==
  Cardinality({p \in DOMAIN sorted : keys[sorted[p]] > keys[k]}) + 1

\* where the next element goes in a list already sorted: sorted() with
\* reverse=True keeps elements with equal keys in their input order, so it
\* goes after every element whose key is at least its own
InsertAt(keys, sorted, k) ==
  Cardinality({p \in DOMAIN sorted : keys[sorted[p]] >= keys[k]}) + 1

RECURSIVE SortFrom(_, _, _)
SortFrom(keys, k, sorted) ==
  IF k > Len(keys) THEN sorted
  ELSE LET at == InsertAt(keys, sorted, k)
           next == SubSeq(sorted, 1, at - 1) \o <<k>> \o SubSeq(sorted, at, Len(sorted))
       IN IF Len(next) > 0 THEN SortFrom(keys, k + 1, next) ELSE sorted

\* sorted(recipes, key=get_priority_score, reverse=True), as the positions in
\* recipes of the dicts the new list holds
sort_recipes_by_priority(rs) ==
  SortFrom(AsTuple([k \in DOMAIN rs |-> get_priority_score(rs[k])]), 1, <<>>)

(***************************************************************************)
(* The inputs: the pools and recipes of tests/test_ingredient_matcher.py   *)
(* and the cases the documented behaviour speaks of                        *)
(***************************************************************************)
UpperChar(c) ==
  IF c \in Range(LowerLetters)
  THEN UpperLetters[CHOOSE k \in DOMAIN LowerLetters : LowerLetters[k] = c]
  ELSE c

Capitalize(word) == <<UpperChar(word[1])>> \o Tail(word)

\* an item name as the inventories spell it: 'Chicken Breast'
Title(words) == Join(AsTuple([k \in DOMAIN words |-> Capitalize(words[k])]))

Item(words, category, vendor) ==
  [Item |-> Title(words), Category |-> category, Vendor |-> vendor]

test_pantry_items ==
  << Item(<<w_chicken, w_breast>>, "Protein", "Pantry"),
     Item(<<w_green, <<"o","n","i","o","n","s">>>>, "Vegetables", "Pantry"),
     Item(<<w_bell, w_peppers>>, "Vegetables", "Pantry"),
     Item(<<w_olive, w_oil>>, "Oils", "Pantry"),
     Item(<<w_sea, w_salt>>, "Seasonings", "Pantry"),
     Item(<<w_black, w_pepper>>, "Seasonings", "Pantry") >>

test_commissary_items ==
  << Item(<<w_turkey, w_mince>>, "Protein", "Commissary"),
     Item(<<w_zucchini>>, "Vegetables", "Commissary"),
     Item(<<<<"c","a","r","r","o","t","s">>>>, "Vegetables", "Commissary"),
     Item(<<w_garlic>>, "Seasonings", "Commissary") >>

test_all_items == test_pantry_items \o test_commissary_items

Plural(word) == word \o <<"s">>

\* the calls of find_best_match looked at: <<ingredient text, pool>>
FindCases ==
  { <<Join(<<w_chicken, w_breast>>), test_all_items>>,
    <<Join(<<w_chicken, <<"t","h","i","g","h","s">>>>), <<test_pantry_items[1]>> >>,
    <<Join(<<w_chicken, <<"t","h","i","g","h","s">>>>), test_all_items>>,
    <<Plural(w_scallion), test_all_items>>,
    <<Join(<<w_ground, w_turkey>>), test_all_items>>,
    <<Join(<<w_kosher, w_salt>>), test_all_items>>,
    <<Join(<<w_sweet, w_pepper>>), test_all_items>>,
    <<<<"c","o","u","r","g","e","t","t","e">>, test_all_items>>,
    <<Join(<< <<"2">>, <<"c","u","p","s">>, w_bell, w_peppers>>), test_all_items>>,
    <<w_fresh, <<Item(<<w_fresh>>, "Produce", "Pantry")>> >>,
    <<w_quinoa, test_all_items>>,
    <<w_quinoa, <<>> >>,
    << <<>>, test_all_items>>,
    <<Plural(w_scallion), <<test_pantry_items[2], Item(<<w_scallion>>,
        "Vegetables", "Commissary")>> >>,
    <<Join(<<w_sea, w_salt>>), <<Item(<<w_salt>>, "Seasonings", "Pantry"),
                                 Item(<<w_kosher, w_salt>>, "Seasonings", "Pantry")>> >>,
    <<w_garlic, <<Item(<<Plural(w_garlic)>>, "Seasonings", "Pantry"), test_commissary_items[4]>> >>,
    <<w_garlic, <<test_pantry_items[1], None, test_commissary_items[4]>> >> }

Named(words) == [name |-> Join(words)]

\* the recipes a batch is drawn from
RecipeCatalog ==
  << [title |-> "Pantry Heavy Recipe",
      ingredients |-> << Named(<<w_chicken, w_breast>>), Named(<<w_bell, w_peppers>>),
                         Named(<<w_olive, w_oil>>) >>],
     [title |-> "Store Heavy Recipe",
      ingredients |-> << Named(<<w_quinoa>>), Named(<<<<"a","l","m","o","n","d">>,
          <<"f","l","o","u","r">>>>),
                         Named(<<w_coconut, <<"m","i","l","k">>>>) >>],
     [title |-> "Test Recipe",
      ingredients |-> << Named(<<w_chicken, w_breast>>),
                         Named(<< <<"2">>, <<"c","u","p","s">>, w_bell, w_peppers>>),
                         Named(<<w_quinoa>>), Named(<<w_garlic>>) >>],
     [title |-> "Unnamed Ingredient Recipe",
      ingredients |-> << [name |-> <<>>], Named(<<w_garlic>>),
                         [original |-> w_quinoa] >>],
     [title |-> "No Ingredients Recipe"] >>

MaxRecipes == 2

\* the batches: up to MaxRecipes different recipes of the catalog, in any order
Batches ==
  LET picks == UNION {[1..n -> DOMAIN RecipeCatalog] : n \in 0..MaxRecipes}
  IN {AsTuple([k \in DOMAIN p |-> RecipeCatalog[p[k]]]) :
        p \in {q \in picks : \A i, j \in DOMAIN q : i # j => q[i] # q[j]}}

(***************************************************************************)
(* The matcher and its lookups                                             *)
(***************************************************************************)
NoMatcher == None

\* the thresholds a matcher is constructed with: none, or an integer
Thresholds == {<<>>, <<0>>, <<50>>, <<90>>, <<99>>, <<100>>}

\* the settings of FUZZY_MATCH_THRESHOLD: unset, or a number
EnvThresholds == {<<>>, <<70>>}

InitFind ==
  /\ extract_width \in {2, 3}
  /\ env_threshold \in EnvThresholds
  /\ matcher = NoMatcher
  /\ \E c \in FindCases : recipe_ingredient = c[1] /\ available_ingredients = c[2]
  /\ found = NoCall
  /\ pantry_items = <<>>
  /\ commissary_items = <<>>
  /\ recipes = <<>>
  /\ next_recipe = 1
  /\ ranked = <<>>
  /\ last_op = "init"
  /\ raw_ingredient = <<>>
  /\ normal_forms = <<>>
  /\ variation_list = NoCall
  /\ test_cases = <<>>
  /\ reported = NoCall

\* matcher = IngredientMatcher(fuzzy_threshold=arg); arg is kept beside the
\* object's attribute to tell what it was constructed with
NewMatcher(arg) ==
  /\ matcher' = [arg |-> arg] @@ IngredientMatcher(arg, env_threshold)
  /\ last_op' = "new"
  /\ UNCHANGED <<extract_width, env_threshold, recipe_ingredient, available_ingredients,
                 found, pantry_items, commissary_items, recipes, next_recipe, ranked,
                 raw_ingredient, normal_forms, variation_list,
                 test_cases, reported>>

\* matcher = create_ingredient_matcher()
CreateIngredientMatcher ==
  /\ matcher' = [arg |-> <<>>] @@ create_ingredient_matcher(env_threshold)
  /\ last_op' = "create"
  /\ UNCHANGED <<extract_width, env_threshold, recipe_ingredient, available_ingredients,
                 found, pantry_items, commissary_items, recipes, next_recipe, ranked,
                 raw_ingredient, normal_forms, variation_list,
                 test_cases, reported>>

\* matcher.find_best_match(recipe_ingredient, available_ingredients)
FindBestMatch ==
  /\ matcher # NoMatcher
  /\ \E best_match \in {find_best_match(matcher, recipe_ingredient,
                                         available_ingredients)} :
       /\ found' = [called |-> TRUE, self |-> matcher,
                    recipe_ingredient |-> recipe_ingredient, result |-> best_match]
       /\ available_ingredients' = PoolAfterFind(available_ingredients, best_match)
  /\ last_op' = "find"
  /\ UNCHANGED <<extract_width, env_threshold, matcher, recipe_ingredient,
                 pantry_items, commissary_items, recipes,
                 next_recipe, ranked,
                 raw_ingredient, normal_forms, variation_list,
                 test_cases, reported>>

Next ==
  \/ \E arg \in Thresholds : NewMatcher(arg)
  \/ CreateIngredientMatcher
  \/ FindBestMatch

Spec == InitFind /\ [][Next]_vars

(***************************************************************************)
(* A batch of recipes analysed and ranked, as app.py does for a search     *)
(***************************************************************************)
InitRecipe ==
  /\ extract_width \in {2, 3}
  /\ env_threshold = <<>>
  /\ matcher = [arg |-> <<90>>] @@ IngredientMatcher(<<90>>, env_threshold)
  /\ recipe_ingredient = <<>>
  /\ available_ingredients = <<>>
  /\ found = NoCall
  /\ pantry_items = test_pantry_items
  /\ commissary_items = test_commissary_items
  /\ recipes \in Batches
  /\ next_recipe = 1
  /\ ranked = <<>>
  /\ last_op = "init"
  /\ raw_ingredient = <<>>
  /\ normal_forms = <<>>
  /\ variation_list = NoCall
  /\ test_cases = <<>>
  /\ reported = NoCall

\* dict(item, source=...) raises TypeError for an entry that is not a dict;
\* a recipe without 'ingredients' is returned before the pools are copied
RaisesOnPools(recipe, pantry, commissary) ==
  /\ "ingredients" \in DOMAIN recipe
  /\ \/ \E k \in DOMAIN pantry : ~IsDict(pantry[k])
     \/ \E k \in DOMAIN commissary : ~IsDict(commissary[k])

\* one turn of the loop over the batch:
\* matcher.match_recipe_ingredients(recipe, pantry_items, commissary_items);
\* when the call raises the recipe is left as it was
MatchRecipeIngredients ==
  /\ next_recipe <= Len(recipes)
  /\ IF RaisesOnPools(recipes[next_recipe], pantry_items, commissary_items)
     THEN /\ last_op' = "raise"
          /\ UNCHANGED <<recipes, found, next_recipe, pantry_items, commissary_items>>
     ELSE /\ \E m \in {Classified(matcher, recipes[next_recipe], pantry_items,
                                   commissary_items)} :
               /\ recipes' = [recipes EXCEPT ![next_recipe] = Analysed(@, m)]
               /\ found' = IF m.last.called THEN m.last ELSE found
          /\ pantry_items' = PoolAfterCopy(recipes[next_recipe], pantry_items, "pantry")
          /\ commissary_items' =
               PoolAfterCopy(recipes[next_recipe], commissary_items, "commissary")
          /\ next_recipe' = next_recipe + 1
          /\ last_op' = "match"
  /\ UNCHANGED <<extract_width, env_threshold, matcher, recipe_ingredient,
                 available_ingredients, ranked,
                 raw_ingredient, normal_forms, variation_list,
                 test_cases, reported>>

\* ranked = matcher.sort_recipes_by_priority(recipes)
SortRecipesByPriority ==
  /\ ranked' = sort_recipes_by_priority(recipes)
  /\ last_op' = "sort"
  /\ UNCHANGED <<extract_width, env_threshold, matcher, recipe_ingredient,
                 available_ingredients, found, pantry_items, commissary_items,
                 recipes, next_recipe,
                 raw_ingredient, normal_forms, variation_list,
                 test_cases, reported>>

NextRecipe ==
  \/ MatchRecipeIngredients
  \/ SortRecipesByPriority

SpecRecipe == InitRecipe /\ [][NextRecipe]_vars

(***************************************************************************)
(* The documented behaviour of the analysis of a recipe                    *)
(***************************************************************************)
AnalysedRecipes ==
  {k \in DOMAIN recipes : "ingredient_analysis" \in DOMAIN recipes[k]}

\* the texts of the ingredients of a recipe that have one, in recipe order
NonEmptyNames(recipe) ==
  SelectSeq(AsTuple([k \in DOMAIN recipe.ingredients |->
                       IngredientName(recipe.ingredients[k])]),
            LAMBDA name : name # <<>>)

\* C1: in every analysis pantry_count + commissary_count + store_count equals
\* total_ingredients, each of the three lists is as long as its count, and
\* total_ingredients is the number of ingredients that had a non-empty name
C1_CountsAddUp ==
  \A k \in AnalysedRecipes :
    LET a == recipes[k].ingredient_analysis
    IN /\ a.pantry_count + a.commissary_count + a.store_count = a.total_ingredients
       /\ Len(a.pantry_ingredients) = a.pantry_count
       /\ Len(a.commissary_ingredients) = a.commissary_count
       /\ Len(a.store_ingredients) = a.store_count
       /\ a.total_ingredients = Len(NonEmptyNames(recipes[k]))

\* the items of the pool whose normalized name is the normalized ingredient
SameNormalizedName ==
  {k \in DOMAIN available_ingredients :
     normalize_ingredient_name(ItemName(available_ingredients[k]))
       = normalize_ingredient_name(recipe_ingredient)}

\* C2: when the normalized ingredient text is the normalized name of an item
\* of the pool, find_best_match returns, at every threshold up to 100, an item
\* with that normalized name and a match_score of at least 95, and of 100 when
\* the two strings are identical
C2_SameNameFound ==
  (found.called /\ SameNormalizedName # {}) =>
     /\ found.result # None
     /\ \E k \in SameNormalizedName :
          found.result.Item = available_ingredients[k].Item
     /\ ScoreGe(found.result.match_score, ScoreOfInt(95))
     /\ (\E k \in SameNormalizedName :
           ItemName(available_ingredients[k]) = recipe_ingredient)
          => found.result.match_score = ScoreOfInt(100)

\* the items of the pool named by a synonym the table lists for the key the
\* ingredient text is (itself or in its simple plural)
NamedBySynonym ==
  {k \in DOMAIN available_ingredients :
     \E e \in DOMAIN synonyms :
       /\ recipe_ingredient \in {synonyms[e][1], Plural(synonyms[e][1])}
       /\ \E s \in Range(synonyms[e][2]) :
            Lower(ItemName(available_ingredients[k])) \in {s, Plural(s)}}

\* C3: at threshold 90, an ingredient text that is a key of the synonym table,
\* or its simple plural, matches the item of the pool named by a synonym of
\* that key
C3_SynonymFound ==
  (found.called /\ found.self.fuzzy_threshold = 90 /\ NamedBySynonym # {}) =>
     /\ found.result # None
     /\ \E k \in NamedBySynonym : found.result.Item = available_ingredients[k].Item

\* the bucket of an ingredient text: where its winning item came from
BucketOf(name) ==
  LET match == find_best_match(matcher, name,
                               AllAvailable(pantry_items, commissary_items))
  IN IF match = None THEN "store"
     ELSE IF \E p \in Range(pantry_items) : p.Item = match.Item THEN "pantry"
     ELSE "commissary"

\* the texts of names whose bucket is b, in the order of names
InBucket(names, buckets, b) ==
  LET at == SelectSeq(AsTuple([k \in DOMAIN names |-> k]), LAMBDA k : buckets[k] = b)
  IN AsTuple([j \in DOMAIN at |-> names[at[j]]])

\* C4: each ingredient with a text is in exactly one bucket, 'pantry' or
\* 'commissary' by the pool the winning item of find_best_match came from and
\* 'store' without a match, and each bucket lists its texts in recipe order
C4_OneBucketInOrder ==
  (last_op = "match" /\ (next_recipe - 1) \in AnalysedRecipes) =>
     LET recipe == recipes[next_recipe - 1]
         a == recipe.ingredient_analysis
         names == NonEmptyNames(recipe)
         buckets == AsTuple([k \in DOMAIN names |-> BucketOf(names[k])])
     IN /\ a.pantry_ingredients = InBucket(names, buckets, "pantry")
        /\ a.commissary_ingredients = InBucket(names, buckets, "commissary")
        /\ a.store_ingredients = InBucket(names, buckets, "store")

C4_Witness ==
  /\ last_op = "match"
  /\ (next_recipe - 1) \in AnalysedRecipes
  /\ LET a == recipes[next_recipe - 1].ingredient_analysis
     IN /\ Len(a.pantry_ingredients) >= 2
        /\ Len(a.commissary_ingredients) >= 1
        /\ Len(a.store_ingredients) >= 1

\* C5: find_best_match returns an item only with a match_score of at least
\* the matcher's fuzzy_threshold; a detailed match entry is in the 'store'
\* bucket exactly when its matched_item is None, and then its match_score is 0
C5_ThresholdAndStore ==
  /\ (found.called /\ found.result # None) =>
        ScoreGe(found.result.match_score, ScoreOfInt(found.self.fuzzy_threshold))
  /\ \A k \in AnalysedRecipes :
       LET d == recipes[k].ingredient_analysis.detailed_matches
       IN /\ \A e \in Range(d.store) :
               e.matched_item = None /\ e.match_score = ScoreOfInt(0)
          /\ \A e \in Range(d.pantry) \cup Range(d.commissary) :
               /\ e.matched_item # None
               /\ ScoreGe(e.match_score, ScoreOfInt(matcher.fuzzy_threshold))

C5_Witness ==
  /\ found.called
  /\ found.result # None
  /\ \E k \in AnalysedRecipes :
       LET d == recipes[k].ingredient_analysis.detailed_matches
       IN d.store # <<>> /\ d.pantry # <<>>

(***************************************************************************)
(* The documented behaviour of the threshold                               *)
(***************************************************************************)
\* C6: with the ingredient text and the pool fixed, when a matcher constructed
\* with threshold T finds a match, a matcher constructed with a threshold T'
\* with 0 <= T' < T finds one too
C6_LowerThresholdStillMatches ==
  [][(/\ found.called
      /\ found'.called
      /\ found.result # None
      /\ found.self.arg # <<>>
      /\ found'.self.arg # <<>>
      /\ found'.self.arg[1] < found.self.arg[1])
     => found'.result # None]_vars

\* the best fuzz.ratio of a variation of the ingredient text and a
\* normalized name of the pool is at least lo and less than hi
BestSimilarityWithin(lo, hi) ==
  LET variations == get_ingredient_variations(recipe_ingredient)
      names == AvailableNames(available_ingredients)
      scores == {fuzz_ratio(variations[v], names[k][1]) :
                   v \in DOMAIN variations, k \in DOMAIN names}
  IN /\ \E x \in scores : ScoreGe(x, ScoreOfInt(lo))
     /\ \A x \in scores : ~ScoreGe(x, ScoreOfInt(hi))

\* C7: against a pool with 'Chicken Breast', 'chicken thighs' has no match at
\* threshold 90 or 99 and has one at threshold 50, its best similarity over
\* all variations being in [50, 90)
C7_ChickenThighs ==
  (/\ found.called
   /\ recipe_ingredient = Join(<<w_chicken, <<"t","h","i","g","h","s">>>>)
   /\ \E k \in DOMAIN available_ingredients :
        available_ingredients[k].Item = Title(<<w_chicken, w_breast>>))
  => /\ found.self.fuzzy_threshold \in {90, 99} => found.result = None
     /\ found.self.fuzzy_threshold = 50 => found.result # None
     /\ BestSimilarityWithin(50, 90)

\* C8: a matcher constructed with fuzzy_threshold = T accepts from exactly T,
\* for every T in 0..100; the default 80, or the value of the environment, is
\* its threshold only when it is constructed without one
C8_ThresholdAsGiven ==
  matcher # NoMatcher =>
    /\ matcher.arg # <<>> => matcher.fuzzy_threshold = matcher.arg[1]
    /\ matcher.arg = <<>> => matcher.fuzzy_threshold = EnvThreshold(env_threshold)

(***************************************************************************)
(* The documented behaviour of the ranking                                 *)
(***************************************************************************)
\* the priority score a recipe is ranked by: 0 without an analysis
ScoreOrZero(recipe) ==
  IF "ingredient_analysis" \in DOMAIN recipe
  THEN recipe.ingredient_analysis.priority_score
  ELSE 0

AllPantry(recipe) ==
  /\ "ingredient_analysis" \in DOMAIN recipe
  /\ recipe.ingredient_analysis.total_ingredients > 0
  /\ recipe.ingredient_analysis.pantry_count
       = recipe.ingredient_analysis.total_ingredients

NoMatches(recipe) ==
  "ingredient_analysis" \in DOMAIN recipe =>
     /\ recipe.ingredient_analysis.pantry_count = 0
     /\ recipe.ingredient_analysis.commissary_count = 0

C10_EqualScoresKeepOrder ==
  last_op = "sort" =>
    \A i, j \in DOMAIN ranked :
      (i < j /\ ScoreOrZero(recipes[ranked[i]]) = ScoreOrZero(recipes[ranked[j]]))
        => ranked[i] < ranked[j]

C10_Witness ==
  /\ last_op = "sort"
  /\ ranked = <<1, 2>>
  /\ "ingredient_analysis" \in DOMAIN recipes[1]
  /\ "ingredient_analysis" \notin DOMAIN recipes[2]
  /\ next_recipe = 3
  /\ ScoreOrZero(recipes[1]) = ScoreOrZero(recipes[2])

(***************************************************************************)
(* One recipe analysed against a pair of pools                             *)
(***************************************************************************)
\* recipes with nothing to classify: no ingredient, or none with a text
UnclassifiedRecipes ==
  << [title |-> "Empty Recipe", ingredients |-> <<>>],
     [title |-> "Nameless Recipe",
      ingredients |-> << [name |-> <<>>], [amount |-> "1"], [original |-> <<>>] >>] >>

\* a recipe whose ingredients carry 'name', 'original', both or neither
FieldRecipes ==
  << [title |-> "Name And Original Recipe",
      ingredients |-> << [name |-> w_garlic, original |-> w_quinoa],
                         [name |-> <<>>, original |-> Join(<<w_olive, w_oil>>)],
                         [name |-> <<>>, original |-> <<>>],
                         [amount |-> "1"],
                         [name |-> w_zucchini] >>] >>

\* the <<pantry pool, commissary pool>> pairs a recipe is analysed against
PoolPairs ==
  { <<test_pantry_items, test_commissary_items>>,
    <<test_commissary_items, test_pantry_items>>,
    <<test_pantry_items, <<>> >>,
    << <<>>, <<>> >>,
    << <<test_pantry_items[1], None, test_pantry_items[4]>>, test_commissary_items>>,
    << <<test_pantry_items[1], Item(<<Plural(w_garlic)>>, "Seasonings", "Pantry")>>,
       test_commissary_items>> }

InitAnalysis ==
  /\ extract_width \in {2, 3}
  /\ env_threshold = <<>>
  /\ matcher = [arg |-> <<90>>] @@ IngredientMatcher(<<90>>, env_threshold)
  /\ recipe_ingredient = <<>>
  /\ available_ingredients = <<>>
  /\ found = NoCall
  /\ \E pools \in PoolPairs : pantry_items = pools[1] /\ commissary_items = pools[2]
  /\ \E recipe \in Range(RecipeCatalog) \cup Range(UnclassifiedRecipes)
                     \cup Range(FieldRecipes) :
       recipes = <<recipe>>
  /\ next_recipe = 1
  /\ ranked = <<>>
  /\ last_op = "init"
  /\ raw_ingredient = <<>>
  /\ normal_forms = <<>>
  /\ variation_list = NoCall
  /\ test_cases = <<>>
  /\ reported = NoCall

SpecAnalysis == InitAnalysis /\ [][NextRecipe]_vars

(***************************************************************************)
(* The documented behaviour of the scores of an analysis                   *)
(***************************************************************************)
\* the ingredients an analysis classified: p + c + s
ClassifiedCount(a) == a.pantry_count + a.commissary_count + a.store_count

\* C11: priority_score is 0.5*(p/t) + 0.3*(c/t) + 0.2*((p+c)/t) rounded to 3
\* decimals with t = p + c + s the number of classified ingredients; with
\* p = 2, c = 1, s = 1 the percentages are 50.0, 25.0, 75.0 and the score 0.475
C11_PriorityScore ==
  \A k \in AnalysedRecipes :
    LET a == recipes[k].ingredient_analysis
        p == a.pantry_count
        c == a.commissary_count
        t == ClassifiedCount(a)
    IN t > 0 =>
         /\ a.priority_score = RoundDiv((5 * p + 3 * c + 2 * (p + c)) * 100, t)
         /\ (p = 2 /\ c = 1 /\ t = 4) =>
              /\ a.pantry_percentage = 500
              /\ a.commissary_percentage = 250
              /\ a.match_percentage = 750
              /\ a.priority_score = 475

\* C12: cost_score is (0*p + 1*c + 2*s)/t rounded to 2 decimals with
\* t = p + c + s: 0 when every classified ingredient is in the pantry, 2 when
\* every classified ingredient is unmatched
C12_CostScore ==
  \A k \in AnalysedRecipes :
    LET a == recipes[k].ingredient_analysis
        t == ClassifiedCount(a)
    IN t > 0 =>
         /\ a.cost_score = RoundDiv((a.commissary_count + 2 * a.store_count) * 100, t)
         /\ a.pantry_count = t => a.cost_score = 0
         /\ a.store_count = t => a.cost_score = 200

\* C13: every analysis, whatever the recipe and the pools, has
\* 0 <= priority_score <= 1 and 0 <= cost_score <= 2, a recipe with no
\* ingredient included
C13_ScoreRanges ==
  \A k \in AnalysedRecipes :
    LET a == recipes[k].ingredient_analysis
    IN /\ 0 <= a.priority_score /\ a.priority_score <= 1000
       /\ 0 <= a.cost_score /\ a.cost_score <= 200

C13_Witness ==
  /\ last_op = "match"
  /\ AnalysedRecipes # {}
  /\ \A k \in AnalysedRecipes :
       /\ recipes[k].ingredients = <<>>
       /\ recipes[k].ingredient_analysis.total_ingredients = 0
       /\ recipes[k].ingredient_analysis.priority_score = 0
       /\ recipes[k].ingredient_analysis.cost_score = 200

\* C14: an analysis that classified no ingredient, the list being empty or no
\* ingredient having a text, has priority_score 0 and cost_score 2
C14_NothingClassified ==
  \A k \in AnalysedRecipes :
    LET a == recipes[k].ingredient_analysis
    IN ClassifiedCount(a) = 0 => (a.priority_score = 0 /\ a.cost_score = 200)

(***************************************************************************)
(* normalize_ingredient_name and get_ingredient_variations on their own    *)
(***************************************************************************)
\* ingredient texts as recipes write them: 'chicken breast'; 'Chicken Breasts'; '2 lbs fresh chicken breast'; '1/2 tsp ground black pepper' ...
IngredientTexts ==
  { <<"c","h","i","c","k","e","n"," ","b","r","e","a","s","t">>,
    <<"C","h","i","c","k","e","n"," ","B","r","e","a","s","t","s">>,
    <<"2"," ","l","b","s"," ","f","r","e","s","h"," ","c","h","i","c","k","e","n"," ","b","r","e","a","s","t">>,
    <<"1","/","2"," ","t","s","p"," ","g","r","o","u","n","d"," ","b","l","a","c","k"," ","p","e","p","p","e","r">>,
    <<"2"," ","m","e","d","i","u","m"," ","b","e","l","l"," ","p","e","p","p","e","r","s",","," ","c","h","o","p","p","e","d">>,
    <<"4"," ","o","z"," ","b","a","b","y"," ","s","p","i","n","a","c","h"," ","l","e","a","v","e","s">>,
    <<"1"," ","b","u","n","c","h"," ","g","r","e","e","n"," ","o","n","i","o","n","s"," ","(","s","c","a","l","l","i","o","n","s",")">>,
    <<"f","r","e","s","h",","," ","c","h","o","p","p","e","d"," ","o","n","i","o","n","s">>,
    <<"g","l","a","s","s","e","s">>,
    <<"c","h","i","c","k","e","n"," ","j","u","s">>,
    <<"b","a","y"," ","l","e","a","v","e","s">>,
    <<"b","e","r","r","i","e","s">>,
    <<"t","o","m","a","t","o","e","s">>,
    <<"c","o","s">>,
    <<"g","a","s">>,
    <<"E","x","t","r","a"," ","V","i","r","g","i","n"," ","O","l","i","v","e"," ","O","i","l">>,
    <<"g","r","e","e","n"," ","o","n","i","o","n">>,
    <<"f","r","e","s","h">>,
    <<>>,
    <<" "," ">>,
    <<"r","o","m","a","i","n","e"," ","h","e","a","r","t","s">>,
    <<"b","e","l","l"," ","p","e","p","p","e","r">>,
    <<"2"," ","e","g","g","s">>,
    <<"o","l","i","v","e"," ","o","i","l",".">> }

\* a quantity as an integer, a decimal, a fraction and a range
Quantities ==
  { <<"2">>, <<"1",".","5">>, <<"1","/","2">>, <<"2","-","3">> }

\* units of self.unit_patterns
ListedUnits ==
  { <<"c","u","p">>, <<"t","b","s","p">>, <<"t","s","p">>, <<"l","b">>, <<"l","b","s">>,
    <<"o","z">>, <<"g">>, <<"k","g">>, <<"l">>, <<"m","l">>, <<"i","n">>,
    <<"p","i","e","c","e">>, <<"s","l","i","c","e">>, <<"c","l","o","v","e">>,
    <<"c","a","n">>, <<"j","a","r">>, <<"b","o","t","t","l","e">>,
    <<"p","a","c","k","a","g","e">> }

\* digit-free ingredient phrases: 'ground black pepper', 'fresh chicken breast'
Phrases ==
  { <<"g","r","o","u","n","d"," ","b","l","a","c","k"," ","p","e","p","p","e","r">>,
    <<"f","r","e","s","h"," ","c","h","i","c","k","e","n"," ","b","r","e","a","s","t">> }

\* quantity + ' ' + unit + ' ' + phrase
QuantifiedTexts == {Join(<<q, u, w>>) : q \in Quantities, u \in ListedUnits, w \in Phrases}

\* phrases an annotation is added to: 'green onions', 'olive oil'
AnnotatedPhrases ==
  { <<"g","r","e","e","n"," ","o","n","i","o","n","s">>,
    <<"o","l","i","v","e"," ","o","i","l">> }

\* annotation texts: 'scallions', 'optional', '2 large', '14 oz can'
Annotations ==
  { <<"s","c","a","l","l","i","o","n","s">>, <<"o","p","t","i","o","n","a","l">>,
    <<"2"," ","l","a","r","g","e">>, <<"1","4"," ","o","z"," ","c","a","n">> }

\* phrase + ' (' + annotation + ')'
Annotate(w, a) == w \o <<" ", "(">> \o a \o <<")">>

AnnotatedTexts == {Annotate(w, a) : w \in AnnotatedPhrases, a \in Annotations}

\* the number of times normalize_ingredient_name is applied in a row
MaxPasses == 3

InitNormalize ==
  /\ extract_width = 2
  /\ env_threshold = <<>>
  /\ matcher = [arg |-> <<90>>] @@ IngredientMatcher(<<90>>, env_threshold)
  /\ recipe_ingredient = <<>>
  /\ available_ingredients = <<>>
  /\ found = NoCall
  /\ pantry_items = <<>>
  /\ commissary_items = <<>>
  /\ recipes = <<>>
  /\ next_recipe = 1
  /\ ranked = <<>>
  /\ last_op = "init"
  /\ raw_ingredient \in IngredientTexts \cup QuantifiedTexts \cup AnnotatedTexts
                    \cup Phrases \cup AnnotatedPhrases
  /\ normal_forms = <<>>
  /\ variation_list = NoCall
  /\ test_cases = <<>>
  /\ reported = NoCall

\* matcher.normalize_ingredient_name(x): x is the ingredient text the first
\* time, and what the call before returned after that
NormalizeIngredientName ==
  /\ Len(normal_forms) < MaxPasses
  /\ normal_forms' = Append(normal_forms,
       normalize_ingredient_name(IF normal_forms = <<>> THEN raw_ingredient
                                 ELSE normal_forms[Len(normal_forms)]))
  /\ last_op' = "normalize"
  /\ UNCHANGED <<extract_width, env_threshold, matcher, recipe_ingredient,
                 available_ingredients, found, pantry_items, commissary_items,
                 recipes, next_recipe, ranked, raw_ingredient, variation_list,
                 test_cases, reported>>

\* variation_list = matcher.get_ingredient_variations(raw_ingredient)
GetIngredientVariations ==
  /\ variation_list' = [called |-> TRUE,
                        result |-> get_ingredient_variations(raw_ingredient)]
  /\ last_op' = "variations"
  /\ UNCHANGED <<extract_width, env_threshold, matcher, recipe_ingredient,
                 available_ingredients, found, pantry_items, commissary_items,
                 recipes, next_recipe, ranked, raw_ingredient, normal_forms,
                 test_cases, reported>>

NextNormalize ==
  \/ NormalizeIngredientName
  \/ GetIngredientVariations

SpecNormalize == InitNormalize /\ [][NextNormalize]_vars

(***************************************************************************)
(* The documented behaviour of normalization and of the variations         *)
(***************************************************************************)
\* C15: normalization is idempotent: normalizing what normalize_ingredient_name
\* returned returns it unchanged, however often it is repeated
C15_Idempotent ==
  \A i \in DOMAIN normal_forms : normal_forms[i] = normal_forms[1]

\* C16: a quantity (integer, decimal, fraction or range) and a listed unit in
\* front of a digit-free phrase are removed whole: the text normalizes to what
\* the phrase alone normalizes to; '2 lbs fresh chicken breast' gives
\* 'chicken breast' and '1/2 tsp ground black pepper' gives 'black pepper'
C16_QuantityAndUnitRemoved ==
  normal_forms # <<>> =>
    /\ \A q \in Quantities, u \in ListedUnits, w \in Phrases :
         raw_ingredient = Join(<<q, u, w>>)
           => normal_forms[1] = normalize_ingredient_name(w)
    /\ raw_ingredient = Join(<< <<"2">>, <<"l","b","s">>, w_fresh, w_chicken, w_breast>>)
         => normal_forms[1] = Join(<<w_chicken, w_breast>>)
    /\ raw_ingredient = Join(<< <<"1","/","2">>, <<"t","s","p">>, w_ground, w_black, w_pepper>>)
         => normal_forms[1] = Join(<<w_black, w_pepper>>)

\* C17: no word of a normalized name is a stop word, also when the stop word
\* stood next to punctuation in the text
C17_NoStopWordLeft ==
  \A i \in DOMAIN normal_forms :
    \A word \in Range(Split(normal_forms[i])) : word \notin stop_words

\* the plural fold as documented, on one word
FoldWord(word) ==
  IF EndsWith(word, <<"i","e","s">>)
  THEN SubSeq(word, 1, Len(word) - 3) \o <<"y">>
  ELSE IF EndsWith(word, <<"e","s">>) /\ ~EndsWith(word, <<"o","e","s">>)
  THEN SubSeq(word, 1, Len(word) - 2)
  ELSE IF Len(word) > 3 /\ EndsWith(word, <<"s">>)
  THEN SubSeq(word, 1, Len(word) - 1)
  ELSE word

\* the phrase with its trailing word folded and every other word as it is
FoldTrailingWord(phrase) ==
  LET ws == Split(phrase)
  IN IF ws = <<>> THEN <<>>
     ELSE Join(Append(SubSeq(ws, 1, Len(ws) - 1), FoldWord(ws[Len(ws)])))

\* C18: the plural fold changes the trailing word only, by the first rule
\* that applies to that word (ies -> y; es but not oes dropped; s dropped from
\* a word longer than 3); a trailing word of 3 letters or fewer ending in s
\* stays as it is, in a phrase of several words too
C18_TrailingWordFold ==
  (normal_forms # <<>> /\ raw_ingredient # <<>>) =>
    normal_forms[1] = FoldTrailingWord(Cleaned(raw_ingredient))

\* C19: an annotation in parentheses goes with its contents, whether or not
\* the contents start with a number: phrase + ' (' + annotation + ')'
\* normalizes to what the phrase normalizes to
C19_AnnotationRemoved ==
  normal_forms # <<>> =>
    \A w \in AnnotatedPhrases, a \in Annotations :
      raw_ingredient = Annotate(w, a) => normal_forms[1] = normalize_ingredient_name(w)

\* where x is first seen in seq
FirstAt(seq, x) == CHOOSE i \in DOMAIN seq : seq[i] = x /\ \A j \in 1..(i - 1) : seq[j] # x

\* what the variations are drawn from, in order: the normalized form, the
\* lower-cased trimmed original, the synonyms of the normalized form when it
\* is a key of the table, its words when it has more than one
VariationSources(text) ==
  LET n == normalize_ingredient_name(text)
      ws == Split(n)
  IN <<n, Strip(Lower(text))>>
       \o (IF IsSynonymKey(n) THEN SynonymsOf(n) ELSE <<>>)
       \o (IF Len(ws) > 1 THEN ws ELSE <<>>)

\* C20: the variations have no duplicate and no empty string; they are the
\* non-empty ones of the normalized form, the lower-cased trimmed original,
\* the synonyms of the normalized form and (for more than one word) its
\* words, in the order each is first seen, the normalized form first when it
\* is not empty
C20_Variations ==
  variation_list.called =>
    \A src \in {VariationSources(raw_ingredient)} :
      \A v \in {variation_list.result} :
        /\ \A i, j \in DOMAIN v : i # j => v[i] # v[j]
        /\ \A i \in DOMAIN v : v[i] # <<>>
        /\ Range(v) = Range(src) \ {<<>>}
        /\ \A i, j \in DOMAIN v : i < j => FirstAt(src, v[i]) < FirstAt(src, v[j])
        /\ src[1] # <<>> => v[1] = src[1]

\* variations of a text whose normalized form is a synonym key of several
\* words and differs from the lower-cased original: synonyms and words are
\* added and a repeated entry is dropped
C20_Witness ==
  /\ variation_list.called
  /\ \E src \in {VariationSources(raw_ingredient)} :
       /\ src[1] # <<>>
       /\ src[1] # src[2]
       /\ IsSynonymKey(src[1])
       /\ Len(Split(src[1])) > 1
       /\ Len(variation_list.result) < Len(src)
       /\ Len(variation_list.result) >= 5

(***************************************************************************)
(* The documented behaviour of the synonym table                           *)
(***************************************************************************)
\* C21: the synonym table of a matcher is bidirectional: a name listed as a
\* synonym of a key is a key itself, and lists that key among its synonyms
C21_SynonymsBidirectional ==
  matcher # NoMatcher =>
  \A k \in DOMAIN synonyms :
    \A b \in Range(synonyms[k][2]) :
      /\ IsSynonymKey(b)
      /\ synonyms[k][1] \in Range(SynonymsOf(b))

(***************************************************************************)
(* The documented behaviour of find_best_match among equal scores          *)
(***************************************************************************)
\* the fuzz.ratio of every variation with every normalized pool name
PairScores(variations, available_names) ==
  AsTuple([v \in DOMAIN variations |->
    AsTuple([k \in DOMAIN available_names |->
      fuzz_ratio(variations[v], available_names[k][1])])])

\* pair (v, k) carries the highest score, and no pair scanned before it
\* (an earlier variation, or an earlier pool item of the same variation) does
FirstMaximum(scores, v, k) ==
  \A v2 \in DOMAIN scores : \A k2 \in DOMAIN scores[v2] :
    /\ ~ScoreGt(scores[v2][k2], scores[v][k])
    /\ scores[v2][k2] = scores[v][k] => (v2 > v \/ (v2 = v /\ k2 >= k))

\* C22: the item find_best_match returns is the first pool item to reach the
\* highest score over all pairs of a variation (in expansion order) and a
\* pool item (in pool order); a later pair with the same score does not
\* replace it
C22_FirstMaximumWins ==
  (found.called /\ found.result # None) =>
    \E vs \in {get_ingredient_variations(recipe_ingredient)} :
      \E an \in {AvailableNames(available_ingredients)} :
        \E scores \in {PairScores(vs, an)} :
          \E v \in DOMAIN vs : \E k \in DOMAIN an :
            /\ FirstMaximum(scores, v, k)
            /\ found.result = Matched(an[k][2], scores[v][k], recipe_ingredient, an[k][1])

\* a match was returned although a later pair (another variation, or another
\* pool item) has the same score as the one returned
C22_Witness ==
  /\ last_op = "find"
  /\ found.result # None
  /\ \E vs \in {get_ingredient_variations(recipe_ingredient)} :
       \E an \in {AvailableNames(available_ingredients)} :
         \E scores \in {PairScores(vs, an)} :
           \E v \in DOMAIN vs : \E k \in DOMAIN an :
             /\ FirstMaximum(scores, v, k)
             /\ found.result.Item = an[k][2].Item
             /\ \E v2 \in DOMAIN vs : \E k2 \in DOMAIN an :
                  /\ <<v2, k2>> # <<v, k>>
                  /\ an[k2][2] # an[k][2]
                  /\ scores[v2][k2] = scores[v][k]

(***************************************************************************)
(* The documented behaviour on empty texts and empty pools                 *)
(***************************************************************************)
\* C23: find_best_match returns None for an empty ingredient text and for an
\* empty pool; so with both pools empty match_recipe_ingredients completes
\* and every ingredient with a text is in the store bucket
C23_EmptyTextOrPool ==
  /\ find_best_match(matcher, <<>>, pantry_items \o commissary_items) = None
  /\ \A k \in DOMAIN recipes :
       \A name \in Range(NonEmptyNames([ingredients |-> Get(recipes[k], "ingredients")])) :
         find_best_match(matcher, name, <<>>) = None
  /\ (pantry_items = <<>> /\ commissary_items = <<>>) =>
       /\ found.called => found.result = None
       /\ \A k \in 1..(next_recipe - 1) :
            "ingredients" \in DOMAIN recipes[k] =>
              /\ k \in AnalysedRecipes
              /\ recipes[k].ingredient_analysis.pantry_ingredients = <<>>
              /\ recipes[k].ingredient_analysis.commissary_ingredients = <<>>
              /\ recipes[k].ingredient_analysis.store_ingredients = NonEmptyNames(recipes[k])

\* a recipe with several named ingredients was analysed against two empty pools
C23_Witness ==
  /\ last_op = "match"
  /\ pantry_items = <<>>
  /\ commissary_items = <<>>
  /\ found.called
  /\ \E k \in AnalysedRecipes : recipes[k].ingredient_analysis.store_count >= 2

(***************************************************************************)
(* The documented behaviour on a pool entry that is not a record           *)
(***************************************************************************)
\* the pool without the entries that are not records
WellFormed(items) == SelectSeq(items, IsDict)

\* C24: an entry of a pool that is not a record is skipped and aborts
\* nothing: find_best_match returns what it returns on the well-formed
\* records of the pool, and match_recipe_ingredients does not raise
C24_NonRecordSkipped ==
  /\ \A k \in DOMAIN recipes :
       \A name \in Range(NonEmptyNames([ingredients |-> Get(recipes[k], "ingredients")])) :
         find_best_match(matcher, name, pantry_items \o commissary_items)
           = find_best_match(matcher, name, WellFormed(pantry_items \o commissary_items))
  /\ last_op # "raise"

(***************************************************************************)
(* The documented choice of the text of a recipe ingredient                *)
(***************************************************************************)
\* the entries of all three buckets of an analysis
AllEntries(a) ==
  a.detailed_matches.pantry \o a.detailed_matches.commissary \o a.detailed_matches.store

\* C25: an ingredient is matched on its 'name' when that is not empty and on
\* its 'original' otherwise; an ingredient with neither is skipped and is in
\* no bucket
C25_NameThenOriginal ==
  \A k \in AnalysedRecipes :
    \A ing \in Range(recipes[k].ingredients) :
      \E entries \in {SelectSeq(AllEntries(recipes[k].ingredient_analysis),
                               LAMBDA e : e.original_recipe_data = ing)} :
        IF "name" \in DOMAIN ing /\ ing.name # <<>>
        THEN Len(entries) = 1 /\ entries[1].recipe_ingredient = ing.name
        ELSE IF "original" \in DOMAIN ing /\ ing.original # <<>>
        THEN Len(entries) = 1 /\ entries[1].recipe_ingredient = ing.original
        ELSE entries = <<>>

\* an analysed recipe with an ingredient that has a name and another original
\* text, one that has only an original text, and one that has neither
C25_Witness ==
  /\ last_op = "match"
  /\ \E k \in AnalysedRecipes :
       /\ \E ing \in Range(recipes[k].ingredients) :
            /\ DOMAIN ing = {"name", "original"}
            /\ ing.name # <<>> /\ ing.original # <<>> /\ ing.name # ing.original
       /\ \E ing \in Range(recipes[k].ingredients) :
            /\ DOMAIN ing = {"name", "original"}
            /\ ing.name = <<>> /\ ing.original # <<>>
       /\ \E ing \in Range(recipes[k].ingredients) :
            "name" \notin DOMAIN ing /\ "original" \notin DOMAIN ing

(***************************************************************************)
(* Classification passes and lookups by one caller on the same inventory   *)
(***************************************************************************)
InitInventory ==
  /\ extract_width \in {2, 3}
  /\ env_threshold = <<>>
  /\ matcher = [arg |-> <<90>>] @@ IngredientMatcher(<<90>>, env_threshold)
  /\ recipe_ingredient \in {w_garlic, Join(<<w_chicken, w_breast>>), w_quinoa}
  /\ \E pools \in PoolPairs :
       /\ pantry_items = pools[1]
       /\ commissary_items = pools[2]
       /\ available_ingredients = pools[1] \o pools[2]
  /\ found = NoCall
  /\ \E k \in 1..3 : recipes = <<RecipeCatalog[k]>>
  /\ next_recipe = 1
  /\ ranked = <<>>
  /\ last_op = "init"
  /\ raw_ingredient = <<>>
  /\ normal_forms = <<>>
  /\ variation_list = NoCall
  /\ test_cases = <<>>
  /\ reported = NoCall

NextInventory ==
  \/ MatchRecipeIngredients
  \/ SortRecipesByPriority
  \/ FindBestMatch

SpecInventory == InitInventory /\ [][NextInventory]_vars

C27_ExtractResultShape ==
  (found.called /\ recipe_ingredient # <<>>) =>
    \E vs \in {get_ingredient_variations(recipe_ingredient)} :
      \E an \in {AvailableNames(available_ingredients)} :
        /\ \A v \in DOMAIN vs :
             \A match_result \in
                 Range(process_extract(vs[v], AsTuple([k \in DOMAIN an |-> an[k][1]]),
                                       ExtractLimit, extract_width)) :
               Len(match_result) = 2
        /\ \E scores \in {PairScores(vs, an)} :
             (\E v \in DOMAIN vs : \E k \in DOMAIN an :
                ScoreGe(scores[v][k], ScoreOfInt(found.self.fuzzy_threshold)))
               => found.result # None

(***************************************************************************)
(* find_best_match and the exhaustive scan of the debugger                 *)
(***************************************************************************)
\* C28: find_best_match, which looks at the 5 best results of process.extract
\* for each variation, returns the item and the match_score that the scan of
\* every variation against every normalized pool name with fuzz.ratio returns
C28_SameAsExhaustiveScan ==
  found.called =>
    found.result = modified_find_best_match(found.self, recipe_ingredient,
                                            available_ingredients)

(***************************************************************************)
(* A name carried by a pantry item and by a commissary item                *)
(***************************************************************************)
\* the normalized names of the items of a pool
NamesOf(items) ==
  {pair[1] : pair \in Range(AvailableNames(items))}

\* C29: when the name that wins the match of an ingredient is the normalized
\* name of a pantry item and of a commissary item, the ingredient is in the
\* pantry bucket, matched with the first pantry item of that name
C29_PantryBeforeCommissary ==
  \A k \in AnalysedRecipes :
    \E shared \in {NamesOf(pantry_items) \cap NamesOf(commissary_items)} :
      \E pantry_names \in {AvailableNames(pantry_items)} :
        /\ \A e \in Range(recipes[k].ingredient_analysis.detailed_matches.commissary) :
             normalize_ingredient_name(e.matched_item) \notin shared
        /\ \A e \in Range(recipes[k].ingredient_analysis.detailed_matches.pantry) :
             normalize_ingredient_name(e.matched_item) \in shared =>
               e.matched_item =
                 pantry_names[FirstNamed(pantry_names,
                                         normalize_ingredient_name(e.matched_item))][2].Item

\* an ingredient was matched with a pantry item whose normalized name a
\* commissary item of another spelling carries too
C29_Witness ==
  /\ last_op = "match"
  /\ \E k \in AnalysedRecipes :
       \E e \in Range(recipes[k].ingredient_analysis.detailed_matches.pantry) :
         \E c \in Range(commissary_items) :
           /\ c.Item # e.matched_item
           /\ normalize_ingredient_name(c.Item) = normalize_ingredient_name(e.matched_item)

(***************************************************************************)
(* ingredient_matcher_debug.py: IngredientMatcherDebugger                  *)
(***************************************************************************)
\* create_test_cases(): the twenty-one cases it adds, in order, each over
\* pantry + commissary of load_sample_data()
create_test_cases ==
  LET pantry_sample ==
        << Item(<<w_chicken, w_breast>>, "Protein", "Pantry"),
           Item(<<w_green, <<"o","n","i","o","n","s">>>>, "Vegetables", "Pantry"),
           Item(<<w_bell, w_peppers>>, "Vegetables", "Pantry"),
           Item(<<w_olive, w_oil>>, "Oils", "Pantry"),
           Item(<<w_sea, w_salt>>, "Seasonings", "Pantry"),
           Item(<<w_black, w_pepper>>, "Seasonings", "Pantry"),
           Item(<<w_ground, w_beef>>, "Protein", "Pantry"),
           Item(<<w_sweet, <<"p","o","t","a","t","o","e","s">>>>, "Vegetables", "Pantry"),
           Item(<<<<"a","v","o","c","a","d","o","s">>>>, "Vegetables", "Pantry"),
           Item(<<w_coconut, w_oil>>, "Oils", "Pantry") >>
      commissary_sample ==
        << Item(<<w_turkey, w_mince>>, "Protein", "Commissary"),
           Item(<<w_zucchini>>, "Vegetables", "Commissary"),
           Item(<<<<"c","a","r","r","o","t","s">>>>, "Vegetables", "Commissary"),
           Item(<<<<"b","r","o","c","c","o","l","i">>>>, "Vegetables", "Commissary"),
           Item(<<<<"s","p","i","n","a","c","h">>>>, "Vegetables", "Commissary"),
           Item(<<<<"c","a","u","l","i","f","l","o","w","e","r">>>>, "Vegetables", "Commissary"),
           Item(<<w_garlic>>, "Seasonings", "Commissary"),
           Item(<<<<"o","n","i","o","n","s">>>>, "Vegetables", "Commissary"),
           Item(<<<<"t","o","m","a","t","o","e","s">>>>, "Vegetables", "Commissary"),
           Item(<<<<"c","u","c","u","m","b","e","r","s">>>>, "Vegetables", "Commissary") >>
      \* self.add_test_case(recipe_ingredient, expected_match, all_ingredients, should_match)
      case(all_ingredients, ingredient, expected_match, should_match) ==
        [recipe_ingredient |-> ingredient, expected_match |-> expected_match,
         available_ingredients |-> all_ingredients, should_match |-> should_match]
      cases(all_ingredients) ==
        << \* 'chicken breast', 'Chicken Breast'
           case(all_ingredients,
                <<"c","h","i","c","k","e","n"," ","b","r","e","a","s","t">>,
                <<"C","h","i","c","k","e","n"," ","B","r","e","a","s","t">>, TRUE),
           \* 'olive oil', 'Olive Oil'
           case(all_ingredients,
                <<"o","l","i","v","e"," ","o","i","l">>,
                <<"O","l","i","v","e"," ","O","i","l">>, TRUE),
           \* 'scallions', 'Green Onions'
           case(all_ingredients,
                <<"s","c","a","l","l","i","o","n","s">>,
                <<"G","r","e","e","n"," ","O","n","i","o","n","s">>, TRUE),
           \* 'spring onions', 'Green Onions'
           case(all_ingredients,
                <<"s","p","r","i","n","g"," ","o","n","i","o","n","s">>,
                <<"G","r","e","e","n"," ","O","n","i","o","n","s">>, TRUE),
           \* 'sweet pepper', 'Bell Peppers'
           case(all_ingredients,
                <<"s","w","e","e","t"," ","p","e","p","p","e","r">>,
                <<"B","e","l","l"," ","P","e","p","p","e","r","s">>, TRUE),
           \* 'courgette', 'Zucchini'
           case(all_ingredients,
                <<"c","o","u","r","g","e","t","t","e">>,
                <<"Z","u","c","c","h","i","n","i">>, TRUE),
           \* 'bell pepper', 'Bell Peppers'
           case(all_ingredients,
                <<"b","e","l","l"," ","p","e","p","p","e","r">>,
                <<"B","e","l","l"," ","P","e","p","p","e","r","s">>, TRUE),
           \* 'sweet potato', 'Sweet Potatoes'
           case(all_ingredients,
                <<"s","w","e","e","t"," ","p","o","t","a","t","o">>,
                <<"S","w","e","e","t"," ","P","o","t","a","t","o","e","s">>, TRUE),
           \* 'avocado', 'Avocados'
           case(all_ingredients,
                <<"a","v","o","c","a","d","o">>,
                <<"A","v","o","c","a","d","o","s">>, TRUE),
           \* 'carrot', 'Carrots'
           case(all_ingredients,
                <<"c","a","r","r","o","t">>,
                <<"C","a","r","r","o","t","s">>, TRUE),
           \* '2 lbs ground beef', 'Ground Beef'
           case(all_ingredients,
                <<"2"," ","l","b","s"," ","g","r","o","u","n","d"," ","b","e","e","f">>,
                <<"G","r","o","u","n","d"," ","B","e","e","f">>, TRUE),
           \* '1 cup diced tomatoes', 'Tomatoes'
           case(all_ingredients,
                <<"1"," ","c","u","p"," ","d","i","c","e","d"," ","t","o","m","a","t","o","e","s">>,
                <<"T","o","m","a","t","o","e","s">>, TRUE),
           \* '3 cloves fresh garlic', 'Garlic'
           case(all_ingredients,
                <<"3"," ","c","l","o","v","e","s"," ","f","r","e","s","h"," ","g","a","r","l","i","c">>,
                <<"G","a","r","l","i","c">>, TRUE),
           \* '2 tbsp extra virgin olive oil', 'Olive Oil'
           case(all_ingredients,
                <<"2"," ","t","b","s","p"," ","e","x","t","r","a"," ","v","i","r","g","i","n"," ","o","l","i","v","e"," ","o","i","l">>,
                <<"O","l","i","v","e"," ","O","i","l">>, TRUE),
           \* '1 tsp kosher salt', 'Sea Salt'
           case(all_ingredients,
                <<"1"," ","t","s","p"," ","k","o","s","h","e","r"," ","s","a","l","t">>,
                <<"S","e","a"," ","S","a","l","t">>, TRUE),
           \* '1/2 tsp ground black pepper', 'Black Pepper'
           case(all_ingredients,
                <<"1","/","2"," ","t","s","p"," ","g","r","o","u","n","d"," ","b","l","a","c","k"," ","p","e","p","p","e","r">>,
                <<"B","l","a","c","k"," ","P","e","p","p","e","r">>, TRUE),
           \* 'chicken thighs', 'Chicken Breast'
           case(all_ingredients,
                <<"c","h","i","c","k","e","n"," ","t","h","i","g","h","s">>,
                <<"C","h","i","c","k","e","n"," ","B","r","e","a","s","t">>, FALSE),
           \* 'ground turkey', 'Turkey Mince'
           case(all_ingredients,
                <<"g","r","o","u","n","d"," ","t","u","r","k","e","y">>,
                <<"T","u","r","k","e","y"," ","M","i","n","c","e">>, TRUE),
           \* 'quinoa', ''
           case(all_ingredients,
                <<"q","u","i","n","o","a">>,
                <<>>, FALSE),
           \* 'almond flour', ''
           case(all_ingredients,
                <<"a","l","m","o","n","d"," ","f","l","o","u","r">>,
                <<>>, FALSE),
           \* 'coconut milk', ''
           case(all_ingredients,
                <<"c","o","c","o","n","u","t"," ","m","i","l","k">>,
                <<>>, FALSE) >>
  IN cases(pantry_sample \o commissary_sample)

\* matcher.find_best_match: the attribute the instance was given, the method
\* of the class when it was given none
getattr_find_best_match(self) ==
  IF "find_best_match" \in DOMAIN self THEN self.find_best_match
  ELSE [name |-> "find_best_match"]

\* one pass of the loop over test_cases: the call of matcher.find_best_match
\* and the entry of results['details']; modified_find_best_match is the one
\* with algo_func = fuzz.ratio
RunCase(self, test_case) ==
  LET NO_MATCH == <<"N","O","_","M","A","T","C","H">>
      detail(match) ==
        [recipe_ingredient |-> test_case.recipe_ingredient,
         expected_match |-> IF test_case.should_match THEN test_case.expected_match
                            ELSE NO_MATCH,
         actual_match |-> IF match # None THEN match.Item ELSE NO_MATCH,
         match_score |-> IF match # None THEN match.match_score ELSE ScoreOfInt(0),
         status |-> IF test_case.should_match
                    THEN IF match # None /\ match.Item = test_case.expected_match
                         THEN "CORRECT"
                         ELSE IF match # None THEN "FALSE_POSITIVE"
                         ELSE "FALSE_NEGATIVE"
                    ELSE IF match = None THEN "CORRECT_NO_MATCH"
                         ELSE "FALSE_POSITIVE",
         should_match |-> test_case.should_match]
  IN detail(IF getattr_find_best_match(self) = [name |-> "find_best_match"]
            THEN find_best_match(self, test_case.recipe_ingredient,
                                 test_case.available_ingredients)
            ELSE modified_find_best_match(self, test_case.recipe_ingredient,
                                          test_case.available_ingredients))

\* the dict run_accuracy_test returns: the counts of the statuses and the
\* metrics, each metric the exact fraction (the code holds the nearest float)
Results(threshold, details) ==
  LET count(statuses) == Cardinality({i \in DOMAIN details : details[i].status \in statuses})
      metrics(total_tests, correct_matches, false_positives, false_negatives) ==
        LET precision == IF correct_matches + false_positives > 0
                         THEN Score(correct_matches, correct_matches + false_positives)
                         ELSE ScoreOfInt(0)
            recall == IF correct_matches + false_negatives > 0
                      THEN Score(correct_matches, correct_matches + false_negatives)
                      ELSE ScoreOfInt(0)
        IN [threshold |-> threshold,
            total_tests |-> total_tests,
            correct_matches |-> correct_matches,
            false_positives |-> false_positives,
            false_negatives |-> false_negatives,
            details |-> details,
            accuracy |-> Score(correct_matches * 100, total_tests),
            precision |-> precision,
            recall |-> recall,
            f1_score |-> IF precision.num * recall.den + recall.num * precision.den > 0
                         THEN Score(2 * precision.num * recall.num,
                                    precision.num * recall.den + recall.num * precision.den)
                         ELSE ScoreOfInt(0)]
  IN metrics(Len(details), count({"CORRECT", "CORRECT_NO_MATCH"}),
             count({"FALSE_POSITIVE"}), count({"FALSE_NEGATIVE"}))

RestoreThresholdSkipped(self, threshold, original_threshold) == self

\* if threshold: self.matcher.fuzzy_threshold = original_threshold
RestoreThreshold(self, threshold, original_threshold) ==
  IF threshold # <<>> /\ threshold[1] # 0
  THEN [self EXCEPT !.fuzzy_threshold = original_threshold]
  ELSE self

\* run_accuracy_test(threshold) of a debugger whose matcher is self and whose
\* test_cases are cases; threshold is <<>> for None or <<n>>. What it leaves
\* of the matcher and of test_cases, and the dict it returns.
run_accuracy_test(self, cases, threshold) ==
  LET run(during, created) ==
        [matcher |-> RestoreThreshold(during, threshold, self.fuzzy_threshold),
         test_cases |-> created,
         results |-> Results(during.fuzzy_threshold,
                             AsTuple([i \in DOMAIN created |->
                                        RunCase(during, created[i])]))]
  IN run(IF threshold # <<>> /\ threshold[1] # 0
         THEN [self EXCEPT !.fuzzy_threshold = threshold[1]]
         ELSE self,
         IF cases = <<>> THEN create_test_cases ELSE cases)

\* one pass of the loop over algorithms: the method in place is saved,
\* modified_find_best_match put in its place, run_accuracy_test() called
\* with no threshold, and the saved method put back
AlgorithmPass(self, algo_name) ==
  LET original_find_best_match == getattr_find_best_match(self)
      modified == [find_best_match |-> [name |-> "modified_find_best_match",
                                       algo_func |-> algo_name]] @@ self
  IN [find_best_match |-> original_find_best_match]
       @@ RestoreThreshold(modified, <<>>, modified.fuzzy_threshold)

\* test_different_algorithms(): what it leaves of the matcher and of
\* test_cases, and of the dict it returns the entry of fuzz.ratio (the
\* entries of the four other scorers go to the caller and leave no state)
test_different_algorithms(self, cases) ==
  LET ratio == run_accuracy_test([find_best_match |->
                                    [name |-> "modified_find_best_match",
                                     algo_func |-> "ratio"]] @@ self,
                                 cases, <<>>)
      returned(run) ==
        [matcher |-> AlgorithmPass(AlgorithmPass(AlgorithmPass(AlgorithmPass(
                       AlgorithmPass(self, "ratio"), "partial_ratio"),
                       "token_sort_ratio"), "token_set_ratio"), "WRatio"),
         test_cases |-> run.test_cases,
         results |-> [ratio |-> run.results]]
  IN returned(ratio)

\* the test cases a caller adds: 'garlic', 'sweet pepper' and 'chicken thighs'
\* over a pool of two items
ExtraCases ==
  LET pool == <<test_pantry_items[1], test_pantry_items[3]>>
  IN << [recipe_ingredient |-> w_garlic, expected_match |-> Title(<<w_garlic>>),
         available_ingredients |-> pool, should_match |-> TRUE],
        [recipe_ingredient |-> Join(<<w_sweet, w_pepper>>),
         expected_match |-> Title(<<w_bell, w_peppers>>),
         available_ingredients |-> pool, should_match |-> TRUE],
        [recipe_ingredient |-> Join(<<w_chicken, <<"t","h","i","g","h","s">>>>),
         expected_match |-> Title(<<w_chicken, w_breast>>),
         available_ingredients |-> pool, should_match |-> FALSE] >>

\* the most test cases a caller adds
MaxTestCases == 2

\* IngredientMatcherDebugger() with no test case yet, or
\* IngredientMatcherDebugger(IngredientMatcher(fuzzy_threshold=arg)) with the
\* first test case added
InitDebugger ==
  /\ extract_width = 2
  /\ env_threshold = <<>>
  /\ \E d \in { <<<<>>, <<>>>>, <<<<50>>, <<ExtraCases[1]>>>>,
                 <<<<60>>, <<ExtraCases[2]>>>>, <<<<90>>, <<ExtraCases[3]>>>> } :
       /\ matcher = IngredientMatcher(d[1], env_threshold)
       /\ test_cases = d[2]
  /\ recipe_ingredient = <<>>
  /\ available_ingredients = <<>>
  /\ found = NoCall
  /\ pantry_items = <<>>
  /\ commissary_items = <<>>
  /\ recipes = <<>>
  /\ next_recipe = 1
  /\ ranked = <<>>
  /\ last_op = "init"
  /\ raw_ingredient = <<>>
  /\ normal_forms = <<>>
  /\ variation_list = NoCall
  /\ reported = NoCall

\* debugger.add_test_case(recipe_ingredient, expected_match, available, should_match)
AddTestCase(test_case) ==
  /\ Len(test_cases) < MaxTestCases
  /\ test_cases' = Append(test_cases, test_case)
  /\ last_op' = "add_test_case"
  /\ UNCHANGED <<extract_width, env_threshold, matcher, recipe_ingredient,
                 available_ingredients, found, pantry_items, commissary_items,
                 recipes, next_recipe, ranked, raw_ingredient, normal_forms,
                 variation_list, reported>>

\* debugger.run_accuracy_test(threshold)
RunAccuracyTest(threshold) ==
  /\ \E r \in {run_accuracy_test(matcher, test_cases, threshold)} :
       /\ matcher' = r.matcher
       /\ test_cases' = r.test_cases
       /\ reported' = [called |-> TRUE, op |-> "run_accuracy_test",
                       threshold |-> threshold, results |-> r.results]
  /\ last_op' = "run_accuracy_test"
  /\ UNCHANGED <<extract_width, env_threshold, recipe_ingredient,
                 available_ingredients, found, pantry_items, commissary_items,
                 recipes, next_recipe, ranked, raw_ingredient, normal_forms,
                 variation_list>>

\* debugger.test_different_algorithms()
TestDifferentAlgorithms ==
  /\ \E r \in {test_different_algorithms(matcher, test_cases)} :
       /\ matcher' = r.matcher
       /\ test_cases' = r.test_cases
       /\ reported' = [called |-> TRUE, op |-> "test_different_algorithms",
                       threshold |-> <<>>, results |-> r.results]
  /\ last_op' = "test_different_algorithms"
  /\ UNCHANGED <<extract_width, env_threshold, recipe_ingredient,
                 available_ingredients, found, pantry_items, commissary_items,
                 recipes, next_recipe, ranked, raw_ingredient, normal_forms,
                 variation_list>>

NextDebugger ==
  \/ \E test_case \in Range(ExtraCases) : AddTestCase(test_case)
  \/ \E threshold \in {<<>>, <<70>>} : RunAccuracyTest(threshold)
  \/ TestDifferentAlgorithms

SpecDebugger == InitDebugger /\ [][NextDebugger]_vars

\* C30: a call of run_accuracy_test(threshold) that returns leaves
\* matcher.fuzzy_threshold as it was before the call, and the 'threshold' it
\* reports is the one the run was made with: the given one when one was
\* given, the matcher's own otherwise, every reported match being the one
\* the matcher finds at that threshold; a call of test_different_algorithms
\* that returns leaves matcher.find_best_match the method it was before the
\* call, the method of the class
C30_OverridesRestored ==
  [][/\ last_op' = "run_accuracy_test" =>
          /\ matcher'.fuzzy_threshold = matcher.fuzzy_threshold
          /\ reported'.results.threshold =
               IF reported'.threshold # <<>> /\ reported'.threshold[1] # 0
               THEN reported'.threshold[1]
               ELSE matcher.fuzzy_threshold
          /\ \A i \in DOMAIN test_cases' :
               reported'.results.details[i] =
                 RunCase([matcher EXCEPT !.fuzzy_threshold = reported'.results.threshold],
                         test_cases'[i])
     /\ last_op' = "test_different_algorithms" =>
          /\ getattr_find_best_match(matcher') = getattr_find_best_match(matcher)
          /\ getattr_find_best_match(matcher') = [name |-> "find_best_match"]]_vars

\* after test_different_algorithms had put a method back, run_accuracy_test
\* ran with a threshold other than the matcher's own and reported that one
C30_Witness ==
  /\ last_op = "run_accuracy_test"
  /\ "find_best_match" \in DOMAIN matcher
  /\ reported.threshold # <<>>
  /\ reported.results.threshold = reported.threshold[1]
  /\ reported.results.threshold # matcher.fuzzy_threshold
  /\ \E i \in DOMAIN test_cases : reported.results.details[i].actual_match
                                   # RunCase(matcher, test_cases[i]).actual_match

====
